---- MODULE Spec2Model ----
(***************************************************************************)
(* Aztec structure analysis and symbol decoder of aztec-web-inspector.     *)
(*                                                                         *)
(* The module models decodeCodewords (aztec-text-decoder): the BitStream   *)
(* reader over fixed-width codewords, the five mode tables and the         *)
(* shift/latch/binary-shift/FLG state machine, with the exact              *)
(* [startBit, endBit) bookkeeping of every emitted record; and             *)
(* analyzeAztecGrid (aztec-structure), which turns a module grid into the  *)
(* codeword values, the codeword width and the data/ECC split the decoder  *)
(* is called with, and into the bit-to-module map of the hover display.    *)
(*                                                                         *)
(* Spec drives the decoder with its three arguments directly, as the unit  *)
(* tests do; SpecGrid drives it from a module grid, as App.tsx does;       *)
(* SpecCalls calls the pure functions of the geometry on their own;        *)
(* SpecExtract calls extractNormalizedGrid (aztec-decoder), which samples  *)
(* the module grid out of the photographed symbol; SpecTermination runs    *)
(* the decoder loop to its end on short inputs; SpecApp interleaves the    *)
(* asynchronous calls App.tsx makes for the files dropped on the page.     *)
(***************************************************************************)
EXTENDS Integers, Sequences, FiniteSets, TLC

VARIABLES
    grid,              \* module grid: grid[y][x] is TRUE for a dark module
    size,              \* side length of the grid
    structure,         \* the AztecStructure analyzeAztecGrid returned
    codewordValues,    \* decodeCodewords argument: raw codeword values
    codewordSize,      \* decodeCodewords argument: bits per codeword
    numDataCodewords,  \* decodeCodewords argument: data/ECC split
    bitBuffer,         \* BitStream.bitBuffer
    bitsAvailable,     \* BitStream.bitsAvailable
    position,          \* BitStream.position
    results,           \* CodewordInfo[] built so far
    charPosition,      \* decodeCodewords local
    currentMode,       \* decodeCodewords local: latched mode
    shiftMode,         \* decodeCodewords local: pending shift or "null"
    symbolIndex,       \* decodeCodewords local
    pc,                \* "analyze" (grid not analysed yet), "loop" (in the
                       \* while loop of decodeCodewords), "done" (returned);
                       \* "call" and "returned" for a function called on
                       \* its own
    call,              \* a function called on its own: name and arguments
    returned,          \* what that call returned
    codewordInfos,     \* App state: the records shown for the symbol
    decodedText,       \* App state: the text shown
    isLoading,         \* App state: the loading overlay is shown
    error,             \* App state: the error shown or "null"
    loading,           \* processFile calls awaiting loadImage
    inFlight           \* processImageData calls, in the order they started

vars == <<grid, size, structure, codewordValues, codewordSize,
          numDataCodewords, bitBuffer, bitsAvailable, position, results,
          charPosition, currentMode, shiftMode, symbolIndex, pc, call,
          returned, codewordInfos, decodedText, isLoading, error, loading,
          inFlight>>

-----------------------------------------------------------------------------
(* Bounds of the explored input space *)

MaxCodewords == 4

MaxDataCodewords == 4

(* Cap on the records emitted before another loop iteration is modelled    *)
MaxRecords == 24

(* Codeword widths explored (getCodewordSize yields 4, 6, 8, 10, 12; the   *)
(* unit tests drive the decoder with 5).                                   *)
CodewordSizes == {4, 5, 6, 8, 10, 12}

(* Codeword values explored for each width.  Every value is a legal        *)
(* codewordSize-bit value (what extractCodewordValues produces).  The      *)
(* 5-bit values are symbols the unit tests use (P/S, 'A', '!', L/L, D/L,   *)
(* B/S); the values of the other widths are bit patterns whose             *)
(* concatenations spell latches and shifts between the five modes, B/S     *)
(* with 5-bit and 11-bit lengths, and FLG with and without ECI digits.     *)
SampleValues(cs) ==
    CASE cs = 4  -> {0, 7, 8, 14, 15}
      [] cs = 5  -> {0, 2, 6, 28, 30, 31}
      [] cs = 6  -> {0, 2, 3, 31, 59}
      [] cs = 8  -> {0, 1, 112, 191, 222}
      [] cs = 10 -> {0, 510, 764, 829, 1018}
      [] cs = 12 -> {0, 1916, 2974, 3135, 3719}

-----------------------------------------------------------------------------
(* Mode tables.  Control characters are written "x01".."x7F" and the       *)
(* backslash, backtick and double quote "bslash", "grave" and "dquote";    *)
(* each of them is one character of output (see ValueLength).              *)

Modes == {"UPPER", "LOWER", "MIXED", "PUNCT", "DIGIT"}

char(value) == [kind |-> "char", value |-> value]

shift(toMode) == [kind |-> "shift", toMode |-> toMode]

latch(toMode) == [kind |-> "latch", toMode |-> toMode]

BINARY_SHIFT == [kind |-> "binary-shift"]

FLG_N == [kind |-> "flg-n"]

UPPER_TABLE ==
    << shift("PUNCT"), char(" "), char("A"), char("B"), char("C"), char("D"),
       char("E"), char("F"), char("G"), char("H"), char("I"), char("J"),
       char("K"), char("L"), char("M"), char("N"), char("O"), char("P"),
       char("Q"), char("R"), char("S"), char("T"), char("U"), char("V"),
       char("W"), char("X"), char("Y"), char("Z"),
       latch("LOWER"), latch("MIXED"), latch("DIGIT"), BINARY_SHIFT >>

LOWER_TABLE ==
    << shift("PUNCT"), char(" "), char("a"), char("b"), char("c"), char("d"),
       char("e"), char("f"), char("g"), char("h"), char("i"), char("j"),
       char("k"), char("l"), char("m"), char("n"), char("o"), char("p"),
       char("q"), char("r"), char("s"), char("t"), char("u"), char("v"),
       char("w"), char("x"), char("y"), char("z"),
       shift("UPPER"), latch("MIXED"), latch("DIGIT"), BINARY_SHIFT >>

MIXED_TABLE ==
    << shift("PUNCT"), char(" "), char("x01"), char("x02"), char("x03"),
       char("x04"), char("x05"), char("x06"), char("x07"), char("x08"),
       char("\t"), char("\n"), char("x0B"), char("x0C"), char("\r"),
       char("x1B"), char("x1C"), char("x1D"), char("x1E"), char("x1F"),
       char("@"), char("bslash"), char("^"), char("_"), char("grave"),
       char("|"),
       char("~"), char("x7F"),
       latch("LOWER"), latch("UPPER"), latch("PUNCT"), BINARY_SHIFT >>

PUNCT_TABLE ==
    << FLG_N, char("\r"), char("\r\n"), char(". "), char(", "), char(": "),
       char("!"), char("dquote"), char("#"), char("$"), char("%"), char("&"),
       char("'"), char("("), char(")"), char("*"), char("+"), char(","),
       char("-"), char("."), char("/"), char(":"), char(";"), char("<"),
       char("="), char(">"), char("?"), char("["), char("]"), char("{"),
       char("}"), latch("UPPER") >>

(* DIGIT_TABLE without its last entry, U/S *)
DIGIT_TABLE_WithoutLast ==
    << shift("PUNCT"), char(" "), char("0"), char("1"), char("2"), char("3"),
       char("4"), char("5"), char("6"), char("7"), char("8"), char("9"),
       char(","), char("."), latch("UPPER") >>

DIGIT_TABLE ==
    << shift("PUNCT"), char(" "), char("0"), char("1"), char("2"), char("3"),
       char("4"), char("5"), char("6"), char("7"), char("8"), char("9"),
       char(","), char("."), latch("UPPER"), shift("UPPER") >>

MODE_TABLES(mode) ==
    CASE mode = "UPPER" -> UPPER_TABLE
      [] mode = "LOWER" -> LOWER_TABLE
      [] mode = "MIXED" -> MIXED_TABLE
      [] mode = "PUNCT" -> PUNCT_TABLE
      [] mode = "DIGIT" -> DIGIT_TABLE

MODE_BITS(mode) == IF mode = "DIGIT" THEN 4 ELSE 5

(* entry.value.length: the PUNCT pairs are two characters long, every      *)
(* other table character (control characters included) is one.             *)
ValueLength(value) ==
    IF value \in {"\r\n", ". ", ", ", ": "} THEN 2 ELSE 1

-----------------------------------------------------------------------------
(* 32-bit integer operators of the implementation language.  Shift counts  *)
(* are taken modulo 32; << wraps to a signed 32-bit value; >> is the       *)
(* arithmetic shift.  The operators avoid any intermediate value outside   *)
(* the signed 32-bit range.                                                *)

MinInt32 == (-1073741824) * 2

(* a << n *)
Shl(a, n) ==
    LET k == n % 32
    IN  IF k = 0 THEN a
        ELSE LET low == a % (2 ^ (31 - k))
                 top == (a \div (2 ^ (31 - k))) % 2
             IN  low * (2 ^ k) + top * MinInt32

(* a >> n *)
Sar(a, n) ==
    LET k == n % 32
    IN  IF k = 31 THEN (IF a < 0 THEN -1 ELSE 0)
        ELSE a \div (2 ^ k)

(* a & ((1 << n) - 1) *)
AndMask(a, n) ==
    LET k == n % 32
    IN  IF k = 0 THEN 0
        ELSE IF k = 31 THEN (IF a < 0 THEN (a + 1073741824) + 1073741824 ELSE a)
        ELSE a % (2 ^ k)

-----------------------------------------------------------------------------
(* BitStream.  A stream state is a record of the three private fields; the *)
(* codeword values and width are the constructor arguments.                *)

Stream(buf, avail, pos) ==
    [bitBuffer |-> buf, bitsAvailable |-> avail, position |-> pos]

(* get bitOffset *)
bitOffset(s) == s.position * codewordSize - s.bitsAvailable

(* get hasMore *)
hasMore(s) == s.bitsAvailable > 0 \/ s.position < Len(codewordValues)

(* The refill loop of read: codewords are appended to the buffer until     *)
(* numBits are available; at the end of the values a single codeword of    *)
(* zeros is appended and the loop is left, whatever is then available.     *)
(* The value ORed in is below 2^codewordSize and the shifted buffer has    *)
(* its low codewordSize bits clear, so the OR is an addition.              *)
RECURSIVE Refill(_, _)
Refill(s, numBits) ==
    IF s.bitsAvailable < numBits
    THEN IF s.position >= Len(codewordValues)
         THEN Stream(Shl(s.bitBuffer, codewordSize),
                     s.bitsAvailable + codewordSize, s.position)
         ELSE Refill(Stream(Shl(s.bitBuffer, codewordSize)
                              + codewordValues[s.position + 1],
                            s.bitsAvailable + codewordSize,
                            s.position + 1), numBits)
    ELSE s

(* read(numBits): the value read and the stream state afterwards *)
read(s, numBits) ==
    LET f     == Refill(s, numBits)
        avail == f.bitsAvailable - numBits
    IN  [result |-> AndMask(Sar(f.bitBuffer, avail), numBits),
         stream |-> Stream(AndMask(f.bitBuffer, avail), avail, f.position)]

-----------------------------------------------------------------------------
(* decodeCodewords *)

TheStream == Stream(bitBuffer, bitsAvailable, position)

dataBitLimit == numDataCodewords * codewordSize

activeMode == IF shiftMode # "null" THEN shiftMode ELSE currentMode

(* The while condition and the break of the first statement of the body *)
LoopContinues ==
    /\ hasMore(TheStream)
    /\ bitOffset(TheStream) < dataBitLimit
    /\ ~(bitOffset(TheStream) + MODE_BITS(activeMode) > dataBitLimit)

(* The symbol read at the head of an iteration *)
SymbolRead == read(TheStream, MODE_BITS(activeMode))

InTable == SymbolRead.result < Len(MODE_TABLES(activeMode))

Entry == MODE_TABLES(activeMode)[SymbolRead.result + 1]

SetStream(s) ==
    /\ bitBuffer' = s.bitBuffer
    /\ bitsAvailable' = s.bitsAvailable
    /\ position' = s.position

(* The state of the App component and of its pending asynchronous calls   *)
AppState == <<codewordInfos, decodedText, isLoading, error, loading, inFlight>>

(* App.tsx lines 59-64: the initial values of the useState hooks; no file  *)
(* has been chosen yet.                                                    *)
AppMounted ==
    /\ codewordInfos = <<>>
    /\ decodedText = ""
    /\ isLoading = FALSE
    /\ error = "null"
    /\ loading = <<>>
    /\ inFlight = <<>>

Inputs == <<grid, size, structure, codewordValues, codewordSize,
            numDataCodewords, call, returned, AppState>>

Init ==
    /\ codewordSize \in CodewordSizes
    /\ \E n \in 0..MaxCodewords :
           codewordValues \in [1..n -> SampleValues(codewordSize)]
    /\ numDataCodewords \in 0..MaxDataCodewords
    /\ grid = <<>>
    /\ size = 0
    /\ structure = <<>>
    /\ AppMounted
    /\ call = <<>>
    /\ returned = <<>>
    /\ bitBuffer = 0
    /\ bitsAvailable = 0
    /\ position = 0
    /\ results = <<>>
    /\ charPosition = 0
    /\ currentMode = "UPPER"
    /\ shiftMode = "null"
    /\ symbolIndex = 0
    /\ pc = "loop"

(* DecodeCharacter with the reset of shiftMode (line 507) left out: the    *)
(* shift would stay in force after the shifted character.                  *)
DecodeCharacter_ShiftKept ==
    /\ pc = "loop"
    /\ Len(results) < MaxRecords
    /\ LoopContinues
    /\ ~InTable \/ Entry.kind = "char"
    /\ LET chars == IF InTable THEN Entry.value ELSE "?"
           rec   == [kind |-> "character", index |-> symbolIndex,
                     rawValue |-> SymbolRead.result,
                     bitSize |-> MODE_BITS(activeMode),
                     startBit |-> bitOffset(TheStream),
                     endBit |-> bitOffset(SymbolRead.stream),
                     decodedChars |-> chars, charPosition |-> charPosition,
                     mode |-> activeMode]
       IN  /\ results' = Append(results, rec)
           /\ charPosition' = charPosition + ValueLength(chars)
    /\ symbolIndex' = symbolIndex + 1
    /\ SetStream(SymbolRead.stream)
    /\ UNCHANGED <<Inputs, currentMode, shiftMode, pc>>

(* case 'char', and the defensive branch for a value beyond the table *)
DecodeCharacter ==
    /\ pc = "loop"
    /\ Len(results) < MaxRecords
    /\ LoopContinues
    /\ ~InTable \/ Entry.kind = "char"
    /\ LET chars == IF InTable THEN Entry.value ELSE "?"
           rec   == [kind |-> "character", index |-> symbolIndex,
                     rawValue |-> SymbolRead.result,
                     bitSize |-> MODE_BITS(activeMode),
                     startBit |-> bitOffset(TheStream),
                     endBit |-> bitOffset(SymbolRead.stream),
                     decodedChars |-> chars, charPosition |-> charPosition,
                     mode |-> activeMode]
       IN  /\ results' = Append(results, rec)
           /\ charPosition' = charPosition + ValueLength(chars)
    /\ symbolIndex' = symbolIndex + 1
    /\ shiftMode' = "null"
    /\ SetStream(SymbolRead.stream)
    /\ UNCHANGED <<Inputs, currentMode, pc>>

(* case 'shift' *)
DecodeShift ==
    /\ pc = "loop"
    /\ Len(results) < MaxRecords
    /\ LoopContinues
    /\ InTable /\ Entry.kind = "shift"
    /\ results' = Append(results,
           [kind |-> "shift", index |-> symbolIndex,
            rawValue |-> SymbolRead.result,
            bitSize |-> MODE_BITS(activeMode),
            startBit |-> bitOffset(TheStream),
            endBit |-> bitOffset(SymbolRead.stream),
            fromMode |-> currentMode, toMode |-> Entry.toMode])
    /\ symbolIndex' = symbolIndex + 1
    /\ shiftMode' = Entry.toMode
    /\ SetStream(SymbolRead.stream)
    /\ UNCHANGED <<Inputs, charPosition, currentMode, pc>>

(* DecodeLatch treating the latch as a shift: the target mode would hold  *)
(* for one symbol only (currentMode of line 537 not assigned).             *)
DecodeLatch_NotLatched ==
    /\ pc = "loop"
    /\ Len(results) < MaxRecords
    /\ LoopContinues
    /\ InTable /\ Entry.kind = "latch"
    /\ results' = Append(results,
           [kind |-> "latch", index |-> symbolIndex,
            rawValue |-> SymbolRead.result,
            bitSize |-> MODE_BITS(activeMode),
            startBit |-> bitOffset(TheStream),
            endBit |-> bitOffset(SymbolRead.stream),
            fromMode |-> currentMode, toMode |-> Entry.toMode])
    /\ symbolIndex' = symbolIndex + 1
    /\ shiftMode' = Entry.toMode
    /\ SetStream(SymbolRead.stream)
    /\ UNCHANGED <<Inputs, charPosition, currentMode, pc>>

(* case 'latch' *)
DecodeLatch ==
    /\ pc = "loop"
    /\ Len(results) < MaxRecords
    /\ LoopContinues
    /\ InTable /\ Entry.kind = "latch"
    /\ results' = Append(results,
           [kind |-> "latch", index |-> symbolIndex,
            rawValue |-> SymbolRead.result,
            bitSize |-> MODE_BITS(activeMode),
            startBit |-> bitOffset(TheStream),
            endBit |-> bitOffset(SymbolRead.stream),
            fromMode |-> currentMode, toMode |-> Entry.toMode])
    /\ symbolIndex' = symbolIndex + 1
    /\ currentMode' = Entry.toMode
    /\ shiftMode' = "null"
    /\ SetStream(SymbolRead.stream)
    /\ UNCHANGED <<Inputs, charPosition, pc>>

(* The 5-bit length read after B/S and the 11-bit length read when the     *)
(* first is zero.                                                          *)
LengthRead5 == read(SymbolRead.stream, 5)

LengthRead11 == read(LengthRead5.stream, 11)

BinaryByteCount ==
    IF LengthRead5.result = 0 THEN LengthRead11.result + 31
    ELSE LengthRead5.result

StreamAfterLength ==
    IF LengthRead5.result = 0 THEN LengthRead11.stream ELSE LengthRead5.stream

(* The raw-byte loop: for (i = 0; i < byteCount && stream.hasMore; i++).   *)
(* decodedChar is the one-unit string of char code byteVal, written as the *)
(* sequence of its code units.                                             *)
RECURSIVE ReadBytes(_, _, _, _)
ReadBytes(s, i, byteCount, recs) ==
    IF i < byteCount /\ hasMore(s)
    THEN LET b == read(s, 8)
         IN  ReadBytes(b.stream, i + 1, byteCount,
                 Append(recs,
                     [kind |-> "binary-byte",
                      index |-> symbolIndex + 1 + i,
                      rawValue |-> b.result, bitSize |-> 8,
                      startBit |-> bitOffset(s),
                      endBit |-> bitOffset(b.stream),
                      decodedChar |-> <<b.result>>,
                      charPosition |-> charPosition + i]))
    ELSE [stream |-> s, records |-> recs]

(* case 'binary-shift' *)
DecodeBinaryShift ==
    /\ pc = "loop"
    /\ Len(results) < MaxRecords
    /\ LoopContinues
    /\ InTable /\ Entry.kind = "binary-shift"
    /\ LET bs    == [kind |-> "binary-shift", index |-> symbolIndex,
                     rawValue |-> SymbolRead.result,
                     bitSize |-> MODE_BITS(activeMode),
                     startBit |-> bitOffset(TheStream),
                     endBit |-> bitOffset(StreamAfterLength),
                     byteCount |-> BinaryByteCount]
           bytes == ReadBytes(StreamAfterLength, 0, BinaryByteCount, <<>>)
       IN  /\ results' = Append(results, bs) \o bytes.records
           /\ symbolIndex' = symbolIndex + 1 + Len(bytes.records)
           /\ charPosition' = charPosition + Len(bytes.records)
           /\ SetStream(bytes.stream)
    /\ shiftMode' = "null"
    /\ UNCHANGED <<Inputs, currentMode, pc>>

(* The 3-bit flag read after FLG(n) *)
FlagRead == read(SymbolRead.stream, 3)

(* The ECI digit loop: for (i = 0; i < flagValue && stream.hasMore; i++) *)
RECURSIVE ReadDigits(_, _, _)
ReadDigits(s, i, flagValue) ==
    IF i < flagValue /\ hasMore(s)
    THEN ReadDigits(read(s, 4).stream, i + 1, flagValue)
    ELSE s

(* case 'flg-n' *)
DecodeFlg ==
    /\ pc = "loop"
    /\ Len(results) < MaxRecords
    /\ LoopContinues
    /\ InTable /\ Entry.kind = "flg-n"
    /\ LET flagValue == FlagRead.result
           after     == IF flagValue >= 1 /\ flagValue <= 6
                        THEN ReadDigits(FlagRead.stream, 0, flagValue)
                        ELSE FlagRead.stream
       IN  /\ results' = Append(results,
                  [kind |-> "flg", index |-> symbolIndex,
                   rawValue |-> SymbolRead.result,
                   bitSize |-> MODE_BITS(activeMode),
                   startBit |-> bitOffset(TheStream),
                   endBit |-> bitOffset(FlagRead.stream),
                   flagValue |-> flagValue])
           /\ SetStream(after)
    /\ symbolIndex' = symbolIndex + 1
    /\ shiftMode' = "null"
    /\ UNCHANGED <<Inputs, charPosition, currentMode, pc>>

(* The ECC loop after the while loop: one record per codeword index        *)
(* i >= numDataCodewords.                                                  *)
EccRecords ==
    [k \in 1..(IF Len(codewordValues) > numDataCodewords
               THEN Len(codewordValues) - numDataCodewords ELSE 0) |->
        LET i == numDataCodewords + k - 1
        IN  [kind |-> "ecc", index |-> symbolIndex + k - 1,
             rawValue |-> codewordValues[i + 1],
             bitSize |-> codewordSize,
             startBit |-> i * codewordSize,
             endBit |-> i * codewordSize + codewordSize]]

(* Leaving the while loop, appending the ECC records and returning *)
EmitEccAndReturn ==
    /\ pc = "loop"
    /\ ~LoopContinues
    /\ results' = results \o EccRecords
    /\ symbolIndex' = symbolIndex + Len(EccRecords)
    /\ pc' = "done"
    /\ UNCHANGED <<Inputs, bitBuffer, bitsAvailable, position, charPosition,
                   currentMode, shiftMode>>

Next ==
    \/ DecodeCharacter
    \/ DecodeShift
    \/ DecodeLatch
    \/ DecodeBinaryShift
    \/ DecodeFlg
    \/ EmitEccAndReturn

Spec == Init /\ [][Next]_vars

(* decodeCodewords run to its end.  The function is sequential code, so a  *)
(* step that can be taken is taken.  The widths are those for which every  *)
(* run that returns has emitted fewer than MaxRecords records when it      *)
(* enters its last iteration (a binary run of an 8-, 10- or 12-bit stream  *)
(* can return after more); a run that gets to MaxRecords records with      *)
(* these widths is one that goes on for ever.                              *)
ShortRunSizes == {4, 5, 6}

MaxShortCodewords == 2

InitShortRuns ==
    /\ Init
    /\ codewordSize \in ShortRunSizes
    /\ Len(codewordValues) <= MaxShortCodewords
    /\ numDataCodewords <= MaxShortCodewords + 1

(* Another iteration of the while loop can be taken: the enabling          *)
(* condition of the five actions that decode a symbol.                     *)
CanStep == pc = "loop" /\ Len(results) < MaxRecords /\ LoopContinues

(* Weak fairness of every action: of the return, and of the iteration,     *)
(* whose enabling condition is written out; every iteration increases      *)
(* symbolIndex.                                                            *)
SpecTermination ==
    /\ InitShortRuns
    /\ [][Next]_vars
    /\ WF_vars(EmitEccAndReturn)
    /\ (<>[]CanStep => []<><<TRUE>>_<<symbolIndex>>)

-----------------------------------------------------------------------------
(* aztec-structure: geometry of the symbol.  Coordinates are <<x, y>>,     *)
(* counted from 0; JavaScript arrays become sequences, so element k of an  *)
(* array is element k + 1 of the sequence.                                 *)

(* grid[y]?.[x] ?? false *)
GridAt(g, x, y) ==
    IF y \in DOMAIN g /\ x \in DOMAIN g[y] THEN g[y][x] ELSE FALSE

getCodewordSize(layers) ==
    LET wordSizes == <<4, 6, 6, 8, 8, 8, 8, 8, 8,
                       10, 10, 10, 10, 10, 10, 10, 10, 10, 10, 10, 10, 10, 10,
                       12, 12, 12, 12, 12, 12, 12, 12, 12, 12>>
    IN  IF layers < Len(wordSizes) THEN wordSizes[layers + 1] ELSE 12

getTotalBits(layers, compact) ==
    ((IF compact THEN 88 ELSE 112) + 16 * layers) * layers

(* The full-range search of calculateLayers: the layer counts 1..32 whose  *)
(* matrix, reference lines included, has the given size.                   *)
FullRangeLayers(sz) ==
    {layers \in 1..32 :
        LET baseSize == 14 + 4 * layers
            alignmentLines == 1 + 2 * ((baseSize \div 2 - 1) \div 15)
        IN  baseSize + alignmentLines = sz}

(* Math.round((size - 15) / 4) is floor((size - 13) / 4) *)
calculateLayers(sz, compact) ==
    IF compact THEN (sz - 11) \div 4
    ELSE IF FullRangeLayers(sz) # {}
         THEN CHOOSE layers \in FullRangeLayers(sz) :
                  \A other \in FullRangeLayers(sz) : layers <= other
         ELSE (sz - 13) \div 4

checkReferenceGridPattern(g, sz, center) ==
    LET startDist == 8
        half      == sz \div 2 - 1
        endDist   == IF half < 12 THEN half ELSE 12
        pairs     == {d \in startDist..(endDist - 1) : center + d + 1 < sz}
        alternations ==
            Cardinality({d \in pairs :
                GridAt(g, center + d, center)
                    # GridAt(g, center + d + 1, center)})
        total     == Cardinality(pairs)
    IN  IF endDist <= startDist THEN FALSE
        ELSE total > 0 /\ 10 * alternations > 7 * total

isCompactAztec(sz, g) ==
    IF sz = 15 THEN TRUE
    ELSE IF sz > 27 THEN FALSE
    ELSE IF sz \in {19, 23, 27} /\ (sz \div 2) + 8 < sz
         THEN ~checkReferenceGridPattern(g, sz, sz \div 2)
         ELSE sz <= 27

(* alignmentMap as a function on 0..baseMatrixSize-1 *)
buildAlignmentMap(layers, compact) ==
    LET baseMatrixSize == (IF compact THEN 11 ELSE 14) + layers * 4
        matrixSize == baseMatrixSize + 1
                          + 2 * ((baseMatrixSize \div 2 - 1) \div 15)
        origCenter == baseMatrixSize \div 2
        center     == matrixSize \div 2
    IN  IF compact THEN [k \in 0..(baseMatrixSize - 1) |-> k]
        ELSE [k \in 0..(baseMatrixSize - 1) |->
                 IF k < origCenter
                 THEN LET i == origCenter - k - 1
                      IN  center - (i + i \div 15) - 1
                 ELSE LET i == k - origCenter
                      IN  center + (i + i \div 15) + 1]

getAlignmentPositions(sz) ==
    LET center == sz \div 2
    IN  {center} \cup
        UNION {{center - offset, center + offset} :
                  offset \in {o \in 1..center : o % 16 = 0}}

(* LayerPositions with the fourth leg laid over the end of the third *)
LayerPositions_LastLegOnThirdLeg(layers, compact, layer) ==
    LET baseMatrixSize == (IF compact THEN 11 ELSE 14) + layers * 4
        alignmentMap == buildAlignmentMap(layers, compact)
        rowSize == (layers - layer) * 4 + (IF compact THEN 9 ELSE 12)
        low     == layer * 2
        high    == baseMatrixSize - 1 - low
    IN  [n \in 1..(8 * rowSize) |->
            LET leg == (n - 1) \div (2 * rowSize)
                j   == ((n - 1) % (2 * rowSize)) \div 2
                k   == (n - 1) % 2
            IN  CASE leg = 0 ->
                       <<alignmentMap[low + k], alignmentMap[low + j]>>
                  [] leg = 1 ->
                       <<alignmentMap[low + j], alignmentMap[high - k]>>
                  [] leg = 2 ->
                       <<alignmentMap[high - k], alignmentMap[high - j]>>
                  [] leg = 3 ->
                       <<alignmentMap[high - j], alignmentMap[high - k]>>]

(* The 8 * rowSize positions of one layer: four legs of rowSize steps j,   *)
(* two modules (k = 0, 1) per step.                                        *)
LayerPositions(layers, compact, layer) ==
    LET baseMatrixSize == (IF compact THEN 11 ELSE 14) + layers * 4
        alignmentMap == buildAlignmentMap(layers, compact)
        rowSize == (layers - layer) * 4 + (IF compact THEN 9 ELSE 12)
        low     == layer * 2
        high    == baseMatrixSize - 1 - low
    IN  [n \in 1..(8 * rowSize) |->
            LET leg == (n - 1) \div (2 * rowSize)
                j   == ((n - 1) % (2 * rowSize)) \div 2
                k   == (n - 1) % 2
            IN  CASE leg = 0 ->
                       <<alignmentMap[low + k], alignmentMap[low + j]>>
                  [] leg = 1 ->
                       <<alignmentMap[low + j], alignmentMap[high - k]>>
                  [] leg = 2 ->
                       <<alignmentMap[high - k], alignmentMap[high - j]>>
                  [] leg = 3 ->
                       <<alignmentMap[high - j], alignmentMap[low + k]>>]

(* PositionsFrom with the inner layers ahead of the outer ones *)
RECURSIVE PositionsFrom_InnermostFirst(_, _, _)
PositionsFrom_InnermostFirst(layers, compact, layer) ==
    IF layer >= layers THEN <<>>
    ELSE PositionsFrom_InnermostFirst(layers, compact, layer + 1)
             \o LayerPositions(layers, compact, layer)

RECURSIVE PositionsFrom(_, _, _)
PositionsFrom(layers, compact, layer) ==
    IF layer >= layers THEN <<>>
    ELSE LayerPositions(layers, compact, layer)
             \o PositionsFrom(layers, compact, layer + 1)

extractBitPositions(layers, compact) == PositionsFrom(layers, compact, 0)

(* codewordModules of mapModulesToCodewords: codeword i (from 0) owns the  *)
(* positions with bitIndex paddingBits + i * codewordSize + b.             *)
mapModulesToCodewords(layers, compact) ==
    LET cwSize         == getCodewordSize(layers)
        totalBits      == getTotalBits(layers, compact)
        totalCodewords == totalBits \div cwSize
        paddingBits    == totalBits % cwSize
        bitPositions   == extractBitPositions(layers, compact)
    IN  [i \in 0..(totalCodewords - 1) |->
            LET first == paddingBits + i * cwSize
                last  == IF first + cwSize <= Len(bitPositions)
                         THEN first + cwSize ELSE Len(bitPositions)
            IN  SubSeq(bitPositions, first + 1, last)]

(* ModulesValue with the first listed module as the least significant bit *)
RECURSIVE ModulesValue_LeastSignificantFirst(_, _, _, _)
ModulesValue_LeastSignificantFirst(g, modules, cwSize, bit) ==
    IF bit >= Len(modules) \/ bit >= cwSize THEN 0
    ELSE (IF GridAt(g, modules[bit + 1][1], modules[bit + 1][2])
          THEN 2 ^ bit ELSE 0)
         + ModulesValue_LeastSignificantFirst(g, modules, cwSize, bit + 1)

(* One codeword value: bit b of the module list, most significant first *)
RECURSIVE ModulesValue(_, _, _, _)
ModulesValue(g, modules, cwSize, bit) ==
    IF bit >= Len(modules) \/ bit >= cwSize THEN 0
    ELSE (IF GridAt(g, modules[bit + 1][1], modules[bit + 1][2])
          THEN 2 ^ (cwSize - 1 - bit) ELSE 0)
         + ModulesValue(g, modules, cwSize, bit + 1)

extractCodewordValues(g, codewordModules, cwSize, totalCodewords) ==
    [n \in 1..totalCodewords |->
        IF (n - 1) \in DOMAIN codewordModules
        THEN ModulesValue(g, codewordModules[n - 1], cwSize, 0)
        ELSE 0]

(* getModeMessagePositions starting one module in from each corner *)
getModeMessagePositions_Wide(center, radius, compact, alignmentPositions) ==
    LET corners == <<<<-1, -1>>, <<1, -1>>, <<1, 1>>, <<-1, 1>>>>
        Side(c) ==
            LET dx    == corners[c][1]
                dy    == corners[c][2]
                nextX == IF dx = dy THEN -dx ELSE 0
                nextY == IF dx = dy THEN 0 ELSE -dy
                all   == [i \in 1..(2 * radius - 2) |->
                            <<center + radius * dx + i * nextX,
                              center + radius * dy + i * nextY>>]
            IN  SelectSeq(all, LAMBDA p :
                    compact \/ ~(p[1] \in alignmentPositions
                                 \/ p[2] \in alignmentPositions))
    IN  Side(1) \o Side(2) \o Side(3) \o Side(4)

(* The mode-message ring, side by side from the four corners *)
getModeMessagePositions(center, radius, compact, alignmentPositions) ==
    LET corners == <<<<-1, -1>>, <<1, -1>>, <<1, 1>>, <<-1, 1>>>>
        Side(c) ==
            LET dx    == corners[c][1]
                dy    == corners[c][2]
                nextX == IF dx = dy THEN -dx ELSE 0
                nextY == IF dx = dy THEN 0 ELSE -dy
                all   == [i \in 1..(2 * radius - 3) |->
                            <<center + radius * dx + (i + 1) * nextX,
                              center + radius * dy + (i + 1) * nextY>>]
            IN  SelectSeq(all, LAMBDA p :
                    compact \/ ~(p[1] \in alignmentPositions
                                 \/ p[2] \in alignmentPositions))
    IN  Side(1) \o Side(2) \o Side(3) \o Side(4)

RECURSIVE BitsValue(_, _)
BitsValue(bits, n) ==
    IF n = 0 THEN 0
    ELSE 2 * BitsValue(bits, n - 1) + (IF bits[n] THEN 1 ELSE 0)

(* readModeMessage expecting a bit for every module of the ring *)
readModeMessage_ExpectsFullRing(g, sz, compact, alignmentPositions) ==
    LET center == sz \div 2
        radius == IF compact THEN 5 ELSE 7
        positions == getModeMessagePositions(center, radius, compact,
                                             alignmentPositions)
        rawBits == [n \in 1..Len(positions) |->
                       GridAt(g, positions[n][1], positions[n][2])]
        expectedBits == IF compact THEN 40 ELSE 56
        dataBitCount == IF compact THEN 8 ELSE 16
        dataValue == BitsValue(rawBits, dataBitCount)
    IN  IF Len(rawBits) # expectedBits
        THEN [layers |-> 0, dataCodewords |-> 0, rawBits |-> rawBits,
              valid |-> FALSE]
        ELSE IF compact
        THEN [layers |-> ((dataValue \div 64) % 4) + 1,
              dataCodewords |-> (dataValue % 64) + 1,
              rawBits |-> rawBits, valid |-> TRUE]
        ELSE [layers |-> ((dataValue \div 2048) % 32) + 1,
              dataCodewords |-> (dataValue % 2048) + 1,
              rawBits |-> rawBits, valid |-> TRUE]

readModeMessage(g, sz, compact, alignmentPositions) ==
    LET center == sz \div 2
        radius == IF compact THEN 5 ELSE 7
        positions == getModeMessagePositions(center, radius, compact,
                                             alignmentPositions)
        rawBits == [n \in 1..Len(positions) |->
                       GridAt(g, positions[n][1], positions[n][2])]
        expectedBits == IF compact THEN 28 ELSE 40
        dataBitCount == IF compact THEN 8 ELSE 16
        dataValue == BitsValue(rawBits, dataBitCount)
    IN  IF Len(rawBits) # expectedBits
        THEN [layers |-> 0, dataCodewords |-> 0, rawBits |-> rawBits,
              valid |-> FALSE]
        ELSE IF compact
        THEN [layers |-> ((dataValue \div 64) % 4) + 1,
              dataCodewords |-> (dataValue % 64) + 1,
              rawBits |-> rawBits, valid |-> TRUE]
        ELSE [layers |-> ((dataValue \div 2048) % 32) + 1,
              dataCodewords |-> (dataValue % 2048) + 1,
              rawBits |-> rawBits, valid |-> TRUE]

(* paddingModules that records no module *)
paddingModules_None(layers, compact) == <<>>

(* paddingModules of mapModulesToCodewords: the first paddingBits          *)
(* positions of the spiral.                                                *)
paddingModules(layers, compact) ==
    LET cwSize       == getCodewordSize(layers)
        paddingBits  == getTotalBits(layers, compact) % cwSize
        bitPositions == extractBitPositions(layers, compact)
    IN  SubSeq(bitPositions, 1,
               IF paddingBits <= Len(bitPositions)
               THEN paddingBits ELSE Len(bitPositions))

(* The three orientation modules at each corner of the mode ring *)
orientationSet(center, modeRing) ==
    LET cornerOffsets ==
            {<<-modeRing, -modeRing>>, <<-modeRing + 1, -modeRing>>,
             <<-modeRing, -modeRing + 1>>,
             <<modeRing, -modeRing>>, <<modeRing - 1, -modeRing>>,
             <<modeRing, -modeRing + 1>>,
             <<modeRing, modeRing>>, <<modeRing - 1, modeRing>>,
             <<modeRing, modeRing - 1>>,
             <<-modeRing, modeRing>>, <<-modeRing + 1, modeRing>>,
             <<-modeRing, modeRing - 1>>}
    IN  {<<center + o[1], center + o[2]>> : o \in cornerOffsets}

(* modeSet with sides one module short at either end *)
modeSet_ShortSides(center, modeRing, compact) ==
    LET modeSpan == IF compact THEN 2 ELSE 4
        span     == (center - modeSpan)..(center + modeSpan)
    IN  {<<x, center - modeRing>> : x \in span}
            \cup {<<x, center + modeRing>> : x \in span}
            \cup {<<center - modeRing, y>> : y \in span}
            \cup {<<center + modeRing, y>> : y \in span}

(* The four sides of the mode ring, modeSpan modules either way *)
modeSet(center, modeRing, compact) ==
    LET modeSpan == IF compact THEN 3 ELSE 5
        span     == (center - modeSpan)..(center + modeSpan)
    IN  {<<x, center - modeRing>> : x \in span}
            \cup {<<x, center + modeRing>> : x \in span}
            \cup {<<center - modeRing, y>> : y \in span}
            \cup {<<center + modeRing, y>> : y \in span}

(* The quotients codewordIndex / (totalCodewords / layers) of the symbols  *)
(* of 1 to 32 layers that the two double divisions round to just below an  *)
(* integer they equal exactly: <<layers, totalCodewords, codewordIndex>>.  *)
RoundedBelow == {<<20, 864, 648>>, <<28, 1306, 653>>}

(* layer of a data or ecc module:                                          *)
(* Math.floor(info.codewordIndex / (totalCodewords / layers))              *)
layerOf(codewordIndex, totalCodewords, layers) ==
    IF <<layers, totalCodewords, codewordIndex>> \in RoundedBelow
    THEN (codewordIndex * layers) \div totalCodewords - 1
    ELSE (codewordIndex * layers) \div totalCodewords

(* The module records of analyzeAztecGrid, modules[y][x].  The map         *)
(* moduleToCodeword is read row by row: the entry of a key is the one set  *)
(* last, at the greatest spiral index holding that coordinate.  A field    *)
(* left undefined by the code is absent from the record.                   *)
classifyModules(g, sz, compact, layers, dataCodewords) ==
    LET cwSize         == getCodewordSize(layers)
        totalBits      == getTotalBits(layers, compact)
        totalCodewords == totalBits \div cwSize
        paddingBits    == totalBits % cwSize
        center         == sz \div 2
        bullseyeHalf   == IF compact THEN 4 ELSE 6
        modeRing       == IF compact THEN 5 ELSE 7
        alignmentPositions ==
            IF compact THEN {} ELSE getAlignmentPositions(sz)
        bitPositions   == extractBitPositions(layers, compact)
        padding        == paddingModules(layers, compact)
        paddingSet     == {padding[n] : n \in 1..Len(padding)}
        orientation    == orientationSet(center, modeRing)
        mode           == modeSet(center, modeRing, compact)
        Abs(v)         == IF v < 0 THEN -v ELSE v
        Max(S)         == CHOOSE v \in S : \A w \in S : w <= v
    IN  [y \in 0..(sz - 1) |->
          LET row == {n \in (paddingBits + 1)..Len(bitPositions) :
                         /\ bitPositions[n][2] = y
                         /\ (n - 1 - paddingBits) \div cwSize
                                < totalCodewords}
          IN  [x \in 0..(sz - 1) |->
                LET chebyshev == IF Abs(x - center) > Abs(y - center)
                                 THEN Abs(x - center) ELSE Abs(y - center)
                    hits   == {n \in row : bitPositions[n][1] = x}
                    dataBitIndex == Max(hits) - 1 - paddingBits
                    base   == [x |-> x, y |-> y, isBlack |-> GridAt(g, x, y)]
                    Typed(t) == base @@ [type |-> t]
                IN  IF x \in alignmentPositions \/ y \in alignmentPositions
                    THEN Typed("alignment")
                    ELSE IF chebyshev <= bullseyeHalf THEN Typed("finder")
                    ELSE IF <<x, y>> \in orientation
                    THEN Typed("orientation")
                    ELSE IF <<x, y>> \in mode THEN Typed("mode")
                    ELSE IF <<x, y>> \in paddingSet THEN Typed("padding")
                    ELSE IF hits # {}
                    THEN base @@
                         [type |-> IF dataBitIndex \div cwSize < dataCodewords
                                   THEN "data" ELSE "ecc",
                          layer |-> layerOf(dataBitIndex \div cwSize,
                                            totalCodewords, layers),
                          codewordIndex |-> dataBitIndex \div cwSize,
                          bitIndex |-> dataBitIndex % cwSize]
                    ELSE Typed("data")]]

(* dataCodewords of analyzeAztecGrid with the mode message's count taken   *)
(* unclamped                                                               *)
dataCodewordsFor_Unclamped(modeMessage, totalCodewords) ==
    IF modeMessage.valid
    THEN modeMessage.dataCodewords
    ELSE (3 * totalCodewords) \div 4

(* dataCodewords of analyzeAztecGrid: the mode message's count, clamped,   *)
(* or the fallback Math.floor(totalCodewords * 0.75)                       *)
dataCodewordsFor(modeMessage, totalCodewords) ==
    IF modeMessage.valid
    THEN (IF modeMessage.dataCodewords < totalCodewords
          THEN modeMessage.dataCodewords ELSE totalCodewords)
    ELSE (3 * totalCodewords) \div 4

(* analyzeAztecGrid.  The record is the AztecStructure returned; its       *)
(* moduleGrid is the grid itself.                                          *)
analyzeAztecGrid(g, sz) ==
    LET compact        == isCompactAztec(sz, g)
        layers         == calculateLayers(sz, compact)
        cwSize         == getCodewordSize(layers)
        totalBits      == getTotalBits(layers, compact)
        totalCodewords == totalBits \div cwSize
        paddingBits    == totalBits % cwSize
        alignmentPositions ==
            IF compact THEN {} ELSE getAlignmentPositions(sz)
        modeMessage    == readModeMessage(g, sz, compact, alignmentPositions)
        dataCodewords  == dataCodewordsFor(modeMessage, totalCodewords)
        codewordModules == mapModulesToCodewords(layers, compact)
        allBitPositions == extractBitPositions(layers, compact)
    IN  [size |-> sz,
         isCompact |-> compact,
         layers |-> layers,
         codewordSize |-> cwSize,
         baseMatrixSize |-> (IF compact THEN 11 ELSE 14) + layers * 4,
         totalBits |-> totalBits,
         totalCodewords |-> totalCodewords,
         dataCodewords |-> dataCodewords,
         eccCodewords |-> totalCodewords - dataCodewords,
         paddingBits |-> paddingBits,
         modules |->
             classifyModules(g, sz, compact, layers, dataCodewords),
         codewordModules |-> codewordModules,
         codewordValues |->
             extractCodewordValues(g, codewordModules, cwSize,
                                   totalCodewords),
         modeMessage |-> modeMessage,
         dataBitPositions |->
             SubSeq(allBitPositions, paddingBits + 1, Len(allBitPositions))]

(* getModulesForBitRange: the modules of the bits startBit..endBit-1 that  *)
(* the position list has.                                                  *)
getModulesForBitRange(startBit, endBit, dataBitPositions) ==
    LET stop == IF endBit < Len(dataBitPositions)
                THEN endBit ELSE Len(dataBitPositions)
    IN  IF stop <= startBit THEN <<>>
        ELSE [n \in 1..(stop - startBit) |->
                 IF startBit + n - 1 >= 0
                 THEN dataBitPositions[startBit + n]
                 ELSE "undefined"]

(* findSymbolAtBit: symbols.find(...), the first record whose range holds   *)
(* the bit.  The result is the sequence of the record found; undefined is  *)
(* the empty sequence.                                                     *)
findSymbolAtBit(bitIndex, symbols) ==
    LET hits == {i \in 1..Len(symbols) :
                    /\ bitIndex >= symbols[i].startBit
                    /\ bitIndex < symbols[i].endBit}
    IN  IF hits = {} THEN <<>>
        ELSE <<symbols[CHOOSE i \in hits : \A j \in hits : i <= j]>>

-----------------------------------------------------------------------------
(* Module grids explored.  A sample grid is a drawn symbol: bullseye,      *)
(* reference lines (full-range), a mode message announcing the number of   *)
(* data codewords, and the data layers filled, in reading order, with a    *)
(* few leading codewords followed by one repeated codeword.                *)

(* Number of leading codewords chosen freely *)
MaxPrefix == 2

(* Sizes and kinds of the sample symbols: 1 and 2 compact layers and 2     *)
(* full-range layers (all with 6-bit codewords).                           *)
Layouts ==
    {[size |-> 15, compact |-> TRUE], [size |-> 19, compact |-> TRUE],
     [size |-> 23, compact |-> FALSE]}

(* The codeword repeated after the prefix: P/S FLG(0) pairs, letters, or   *)
(* a binary shift announcing 31 bytes.                                     *)
FillValues == {0, 21, 63}

(* Data-codeword counts written into the mode message *)
DataCodewordSamples == {2, 5, 17, 64}

SampleGrid(layout, prefix, fill, dcw) ==
    LET sz        == layout.size
        compact   == layout.compact
        layers    == calculateLayers(sz, compact)
        cwSize    == getCodewordSize(layers)
        padding   == getTotalBits(layers, compact) % cwSize
        positions == extractBitPositions(layers, compact)
        center    == sz \div 2
        lines     == IF compact THEN {} ELSE getAlignmentPositions(sz)
        modePositions ==
            getModeMessagePositions(center, IF compact THEN 5 ELSE 7,
                                    compact, lines)
        modeBits  == IF compact THEN 8 ELSE 16
        modeValue == (layers - 1) * (IF compact THEN 64 ELSE 2048)
                         + (dcw - 1)
        Codeword(i) == IF i + 1 <= Len(prefix) THEN prefix[i + 1] ELSE fill
        StreamBit(n) ==
            (Codeword(n \div cwSize)
                 \div (2 ^ (cwSize - 1 - (n % cwSize)))) % 2
        Abs(v) == IF v < 0 THEN -v ELSE v
        Ring(x, y) == IF Abs(x - center) > Abs(y - center)
                      THEN Abs(x - center) ELSE Abs(y - center)
        dataDark ==
            {positions[padding + n + 1] :
                n \in {m \in 0..(Len(positions) - padding - 1) :
                          StreamBit(m) = 1}}
        modeDark ==
            {modePositions[m] :
                m \in {b \in 1..modeBits :
                          (modeValue \div (2 ^ (modeBits - b))) % 2 = 1}}
        Dark(x, y) ==
            IF Ring(x, y) <= (IF compact THEN 4 ELSE 6)
            THEN Ring(x, y) % 2 = 0
            ELSE IF x \in lines \/ y \in lines THEN (x + y) % 2 = 0
            ELSE <<x, y>> \in (dataDark \cup modeDark)
    IN  [y \in 0..(sz - 1) |-> [x \in 0..(sz - 1) |-> Dark(x, y)]]

InitGrid ==
    /\ \E layout \in Layouts, fill \in FillValues,
          dcw \in DataCodewordSamples, k \in 0..MaxPrefix :
           \E prefix \in [1..k -> SampleValues(6)] :
               /\ grid = SampleGrid(layout, prefix, fill, dcw)
               /\ size = layout.size
    /\ structure = <<>>
    /\ AppMounted
    /\ call = <<>>
    /\ returned = <<>>
    /\ codewordValues = <<>>
    /\ codewordSize = 0
    /\ numDataCodewords = 0
    /\ bitBuffer = 0
    /\ bitsAvailable = 0
    /\ position = 0
    /\ results = <<>>
    /\ charPosition = 0
    /\ currentMode = "UPPER"
    /\ shiftMode = "null"
    /\ symbolIndex = 0
    /\ pc = "analyze"

(* App.tsx: the grid is analysed and decodeCodewords is called with the    *)
(* structure's codewordValues, codewordSize and dataCodewords.             *)
AnalyzeGrid ==
    /\ pc = "analyze"
    /\ structure' = analyzeAztecGrid(grid, size)
    /\ codewordValues' = structure'.codewordValues
    /\ codewordSize' = structure'.codewordSize
    /\ numDataCodewords' = structure'.dataCodewords
    /\ pc' = "loop"
    /\ UNCHANGED <<grid, size, bitBuffer, bitsAvailable, position, results,
                   charPosition, currentMode, shiftMode, symbolIndex, call,
                   returned,
                   AppState>>

NextGrid == AnalyzeGrid \/ Next

SpecGrid == InitGrid /\ [][NextGrid]_vars

-----------------------------------------------------------------------------
(* The geometry functions called on their own, as the unit tests of        *)
(* aztec-structure call them.                                              *)

(* Layer counts of the symbology: the comment of isCompactAztec (compact   *)
(* sizes 15..27 are 1-4 layers) and the loop of calculateLayers.           *)
MaxCompactLayers == 4

MaxFullLayers == 32

LegalLayers(compact) ==
    1..(IF compact THEN MaxCompactLayers ELSE MaxFullLayers)

(* The matrix side of a symbol: baseMatrixSize for compact, matrixSize of  *)
(* buildAlignmentMap for full-range.                                       *)
MatrixSize(layers, compact) ==
    IF compact THEN 11 + 4 * layers
    ELSE LET baseMatrixSize == 14 + 4 * layers
         IN  baseMatrixSize + 1 + 2 * ((baseMatrixSize \div 2 - 1) \div 15)

BitPositionCalls ==
    UNION {{[op |-> "extractBitPositions", layers |-> l, compact |-> c] :
               l \in LegalLayers(c)} : c \in BOOLEAN}

CallExtractBitPositions ==
    /\ pc = "call"
    /\ call.op = "extractBitPositions"
    /\ returned' = extractBitPositions(call.layers, call.compact)
    /\ pc' = "returned"
    /\ UNCHANGED <<grid, size, structure, codewordValues, codewordSize,
                   numDataCodewords, bitBuffer, bitsAvailable, position,
                   results, charPosition, currentMode, shiftMode,
                   symbolIndex, call,
                   AppState>>

(* Grid sizes of the symbology *)
LegalSizes(compact) == {MatrixSize(l, compact) : l \in LegalLayers(compact)}

(* Grid contents explored for the analysis: blank, solid, and three        *)
(* regular textures, which put different bits on the mode ring and on the  *)
(* centre row.                                                             *)
Patterns == {"light", "dark", "checks", "stripes", "weave"}

TextureDark(pattern, x, y) ==
    CASE pattern = "light"   -> FALSE
      [] pattern = "dark"    -> TRUE
      [] pattern = "checks"  -> (x + y) % 2 = 0
      [] pattern = "stripes" -> x % 3 = 0
      [] pattern = "weave"   -> (x + 2 * y) % 5 < 2

PatternGrid(sz, pattern) ==
    [y \in 0..(sz - 1) |-> [x \in 0..(sz - 1) |->
        TextureDark(pattern, x, y)]]

AnalysisCalls ==
    {[op |-> "analyzeAztecGrid", grid |-> PatternGrid(sz, pattern),
      size |-> sz] :
        sz \in LegalSizes(TRUE) \cup LegalSizes(FALSE), pattern \in Patterns}

CallAnalyzeAztecGrid ==
    /\ pc = "call"
    /\ call.op = "analyzeAztecGrid"
    /\ returned' = analyzeAztecGrid(call.grid, call.size)
    /\ pc' = "returned"
    /\ UNCHANGED <<grid, size, structure, codewordValues, codewordSize,
                   numDataCodewords, bitBuffer, bitsAvailable, position,
                   results, charPosition, currentMode, shiftMode,
                   symbolIndex, call,
                   AppState>>

(* Inputs of extractCodewordValues: every grid of CodewordGridSide rows    *)
(* and columns, the module lists of the unit tests and their like (a list  *)
(* filling the codeword, two short lists, no list at all, a list starting  *)
(* outside the grid, a list for codeword 1 only), and the codeword sizes   *)
(* and counts of the unit tests.                                           *)
CodewordGridSide == 2

CodewordGrids ==
    [0..(CodewordGridSide - 1) -> [0..(CodewordGridSide - 1) -> BOOLEAN]]

ModuleLists ==
    {(0 :> <<<<0, 0>>, <<1, 0>>, <<0, 1>>, <<1, 1>>>>),
     (0 :> <<<<0, 0>>, <<1, 0>>>>) @@ (1 :> <<<<0, 1>>, <<1, 1>>>>),
     <<>>,
     (0 :> <<<<5, 5>>, <<0, 0>>, <<1, 1>>>>),
     (1 :> <<<<1, 1>>, <<0, 1>>, <<1, 0>>>>)}

CodewordValueCalls ==
    {[op |-> "extractCodewordValues", grid |-> g, codewordModules |-> m,
      codewordSize |-> cs, totalCodewords |-> t] :
        g \in CodewordGrids, m \in ModuleLists, cs \in {1, 2, 4},
        t \in {1, 2}}

CallExtractCodewordValues ==
    /\ pc = "call"
    /\ call.op = "extractCodewordValues"
    /\ returned' = extractCodewordValues(call.grid, call.codewordModules,
                                         call.codewordSize,
                                         call.totalCodewords)
    /\ pc' = "returned"
    /\ UNCHANGED <<grid, size, structure, codewordValues, codewordSize,
                   numDataCodewords, bitBuffer, bitsAvailable, position,
                   results, charPosition, currentMode, shiftMode,
                   symbolIndex, call,
                   AppState>>

(* Grids that are light but for a mode ring spelling a given value in its *)
(* first 8 (compact) or 16 (full-range) modules, for sizes of 6-, 8-, 10-  *)
(* and 12-bit codewords.                                                   *)
RingValues == {0, 1, 63, 64, 255, 2047, 2048, 65535}

RingSizes == {15, 19, 27, 31, 57, 113}

RingGrid(sz, value) ==
    LET compact   == sz <= 27
        modeBits  == IF compact THEN 8 ELSE 16
        positions ==
            getModeMessagePositions(sz \div 2, IF compact THEN 5 ELSE 7,
                compact, IF compact THEN {} ELSE getAlignmentPositions(sz))
        dark == {positions[b] :
                    b \in {n \in 1..modeBits :
                              (value \div 2 ^ (modeBits - n)) % 2 = 1}}
    IN  [y \in 0..(sz - 1) |-> [x \in 0..(sz - 1) |-> <<x, y>> \in dark]]

RingCalls ==
    {[op |-> "analyzeAztecGrid", grid |-> RingGrid(sz, value), size |-> sz] :
        sz \in RingSizes, value \in RingValues}

(* getModeMessagePositions as readModeMessage calls it for a grid size *)
ModePositionCalls ==
    UNION {{[op |-> "getModeMessagePositions",
             center |-> MatrixSize(l, c) \div 2,
             radius |-> IF c THEN 5 ELSE 7,
             compact |-> c,
             alignmentPositions |->
                 IF c THEN {} ELSE getAlignmentPositions(MatrixSize(l, c))] :
               l \in LegalLayers(c)} : c \in BOOLEAN}

CallGetModeMessagePositions ==
    /\ pc = "call"
    /\ call.op = "getModeMessagePositions"
    /\ returned' = getModeMessagePositions(call.center, call.radius,
                                           call.compact,
                                           call.alignmentPositions)
    /\ pc' = "returned"
    /\ UNCHANGED <<grid, size, structure, codewordValues, codewordSize,
                   numDataCodewords, bitBuffer, bitsAvailable, position,
                   results, charPosition, currentMode, shiftMode,
                   symbolIndex, call,
                   AppState>>

InitCalls ==
    /\ \/ call \in BitPositionCalls
       \/ call \in AnalysisCalls
       \/ call \in RingCalls
       \/ call \in CodewordValueCalls
       \/ call \in ModePositionCalls
    /\ returned = <<>>
    /\ pc = "call"
    /\ grid = <<>>
    /\ size = 0
    /\ structure = <<>>
    /\ AppMounted
    /\ codewordValues = <<>>
    /\ codewordSize = 0
    /\ numDataCodewords = 0
    /\ bitBuffer = 0
    /\ bitsAvailable = 0
    /\ position = 0
    /\ results = <<>>
    /\ charPosition = 0
    /\ currentMode = "UPPER"
    /\ shiftMode = "null"
    /\ symbolIndex = 0

NextCalls ==
    \/ CallExtractBitPositions
    \/ CallAnalyzeAztecGrid
    \/ CallExtractCodewordValues
    \/ CallGetModeMessagePositions

SpecCalls == InitCalls /\ [][NextCalls]_vars

-----------------------------------------------------------------------------
(* aztec-decoder: extractNormalizedGrid.  Corner coordinates are integers  *)
(* and the arithmetic of the homography is carried out on exact fractions  *)
(* <<numerator, denominator>>, denominator > 0, in lowest terms.           *)

RECURSIVE Gcd(_, _)
Gcd(a, b) == IF b = 0 THEN a ELSE Gcd(b, a % b)

Rat(n, d) ==
    LET g == Gcd(IF n < 0 THEN -n ELSE n, IF d < 0 THEN -d ELSE d)
    IN  IF n = 0 THEN <<0, 1>>
        ELSE IF d < 0 THEN <<(-n) \div g, (-d) \div g>>
        ELSE <<n \div g, d \div g>>

RatSub(a, b) == Rat(a[1] * b[2] - b[1] * a[2], a[2] * b[2])

RatMul(a, b) == Rat(a[1] * b[1], a[2] * b[2])

RatDiv(a, b) == Rat(a[1] * b[2], a[2] * b[1])

RatAbs(a) == IF a[1] < 0 THEN <<-a[1], a[2]>> ELSE a

RatGreater(a, b) == a[1] * b[2] > b[1] * a[2]

(* Corner normalisation: the corners are classified by quadrant around     *)
(* the centroid and each name takes the first corner of its quadrant, or   *)
(* keeps its own corner when the quadrant is empty.  c.x < cx is           *)
(* 4 * c.x < sum of the x.                                                 *)
normalizeCorners(pos) ==
    LET corners == <<pos.topLeft, pos.topRight,
                     pos.bottomRight, pos.bottomLeft>>
        sumX == corners[1].x + corners[2].x + corners[3].x + corners[4].x
        sumY == corners[1].y + corners[2].y + corners[3].y + corners[4].y
        isLeft(c) == 4 * c.x < sumX
        isTop(c)  == 4 * c.y < sumY
        Find(left, top, own) ==
            LET found == {n \in 1..4 : /\ isLeft(corners[n]) = left
                                       /\ isTop(corners[n]) = top}
            IN  IF found = {} THEN own
                ELSE corners[CHOOSE n \in found : \A m \in found : n <= m]
    IN  [topLeft     |-> Find(TRUE, TRUE, pos.topLeft),
         topRight    |-> Find(FALSE, TRUE, pos.topRight),
         bottomRight |-> Find(FALSE, FALSE, pos.bottomRight),
         bottomLeft  |-> Find(TRUE, FALSE, pos.bottomLeft)]

(* Row col..7 of the augmented matrix after the elimination steps of       *)
(* columns 0..col-1: pivot search, row swap, singularity test and          *)
(* elimination below the pivot.  The result tells whether a pivot was      *)
(* found in every column (an exact pivot is below 1e-10 only when it is 0) *)
(* and, if so, holds the eliminated matrix.                                *)
RECURSIVE Eliminate(_, _)
Eliminate(aug, col) ==
    IF col = 8 THEN [singular |-> FALSE, aug |-> aug]
    ELSE LET maxRow ==
                 CHOOSE r \in col..7 :
                     /\ \A q \in col..7 :
                            ~RatGreater(RatAbs(aug[q][col]),
                                        RatAbs(aug[r][col]))
                     /\ \A q \in col..(r - 1) :
                            RatGreater(RatAbs(aug[r][col]),
                                       RatAbs(aug[q][col]))
             swapped == [r \in 0..7 |->
                            IF r = col THEN aug[maxRow]
                            ELSE IF r = maxRow THEN aug[col]
                            ELSE aug[r]]
             pivot == swapped[col][col]
         IN  IF pivot[1] = 0 THEN [singular |-> TRUE]
             ELSE Eliminate(
                      [r \in 0..7 |->
                          IF r <= col THEN swapped[r]
                          ELSE LET factor == RatDiv(swapped[r][col], pivot)
                               IN  [j \in 0..8 |->
                                       IF j < col THEN swapped[r][j]
                                       ELSE RatSub(swapped[r][j],
                                                RatMul(factor,
                                                       swapped[col][j]))]],
                      col + 1)

(* Back substitution: x[row..7] from the eliminated matrix *)
RECURSIVE BackSubstitute(_, _, _)
BackSubstitute(aug, row, x) ==
    IF row < 0 THEN x
    ELSE LET Sum[c \in (row + 1)..8] ==
                 IF c = 8 THEN aug[row][8]
                 ELSE RatSub(Sum[c + 1], RatMul(aug[row][c], x[c]))
         IN  BackSubstitute(aug, row - 1,
                 [x EXCEPT ![row] = RatDiv(Sum[row + 1], aug[row][row])])

(* solveLinearSystem on the 8 x 8 system: null, or the solution x[0..7] *)
solveLinearSystem(A, b) ==
    LET aug == [r \in 0..7 |-> [j \in 0..8 |->
                   IF j = 8 THEN <<b[r], 1>> ELSE <<A[r][j], 1>>]]
        eliminated == Eliminate(aug, 0)
    IN  IF eliminated.singular THEN [null |-> TRUE]
        ELSE [null |-> FALSE,
              x |-> BackSubstitute(eliminated.aug, 7,
                                   [c \in 0..7 |-> <<0, 1>>])]

(* The 8 x 9 matrix of computeHomography, rows 2i and 2i + 1 for corner i *)
HomographyRows(src, dst) ==
    [r \in 0..7 |->
        LET i  == r \div 2 + 1
            dx == dst[i].x
            dy == dst[i].y
            sx == src[i].x
            sy == src[i].y
        IN  IF r % 2 = 0
            THEN <<dx, dy, 1, 0, 0, 0, -dx * sx, -dy * sx, -sx>>
            ELSE <<0, 0, 0, dx, dy, 1, -dx * sy, -dy * sy, -sy>>]

(* What solveLinearSystem returns to computeHomography *)
HomographySolution(src, dst) ==
    LET A == HomographyRows(src, dst)
    IN  solveLinearSystem([r \in 0..7 |-> [j \in 0..7 |-> A[r][j + 1]]],
                          [r \in 0..7 |-> -A[r][9]])

(* computeHomography: h0..h8, the identity when the solve fails *)
computeHomography(src, dst) ==
    LET h == HomographySolution(src, dst)
    IN  IF h.null
        THEN [k \in 0..8 |-> IF k \in {0, 4, 8} THEN <<1, 1>> ELSE <<0, 1>>]
        ELSE [k \in 0..8 |-> IF k = 8 THEN <<1, 1>> ELSE h.x[k]]

(* The image is represented by the picture its perspective sampling       *)
(* shows: a symbol imageData.shown modules wide with the five rings of a   *)
(* compact bullseye at its centre and imageData.texture around them.       *)
(* PixelDark is getPixelLuminance(...) < 128 at a pixel of that picture.   *)
PixelDark(imageData, outputSize, px, py) ==
    LET mx     == (px * imageData.shown) \div outputSize
        my     == (py * imageData.shown) \div outputSize
        center == imageData.shown \div 2
        Abs(v) == IF v < 0 THEN -v ELSE v
        ring   == IF Abs(mx - center) > Abs(my - center)
                  THEN Abs(mx - center) ELSE Abs(my - center)
    IN  IF ring <= 4 THEN ring % 2 = 0
        ELSE TextureDark(imageData.texture, mx, my)

(* detectGridSize: the valid size closest to the estimate, the first of    *)
(* two equally close.  The picture has a compact bullseye and its estimate *)
(* is the number of modules it shows.                                      *)
detectGridSize(imageData, outputSize) ==
    LET estimatedSize == imageData.shown
        validSizes    == <<15, 19, 23, 27>>
        Abs(v)        == IF v < 0 THEN -v ELSE v
        Diff(n)       == Abs(estimatedSize - validSizes[n])
    IN  validSizes[CHOOSE n \in 1..Len(validSizes) :
                       /\ \A m \in 1..Len(validSizes) : Diff(n) <= Diff(m)
                       /\ \A m \in 1..(n - 1) : Diff(m) > Diff(n)]

(* Math.floor((col + 0.5) * (outputSize / gridSize)) *)
ModuleCentre(col, outputSize, gridSize) ==
    ((2 * col + 1) * outputSize) \div (2 * gridSize)

scoreBullseyeAlignment(imageData, outputSize, gridSize) ==
    LET center         == gridSize \div 2
        bullseyeRadius == IF gridSize > 27 THEN 6 ELSE 4
        directions     == {<<0, 1>>, <<0, -1>>, <<1, 0>>, <<-1, 0>>}
        Scores(dist, d) ==
            LET row == center + d[1] * dist
                col == center + d[2] * dist
                x   == ModuleCentre(col, outputSize, gridSize)
                y   == ModuleCentre(row, outputSize, gridSize)
            IN  /\ row >= 0 /\ row < gridSize /\ col >= 0 /\ col < gridSize
                /\ x >= 0 /\ x < outputSize /\ y >= 0 /\ y < outputSize
                /\ PixelDark(imageData, outputSize, x, y) = (dist % 2 = 0)
    IN  Cardinality({p \in (0..bullseyeRadius) \X directions :
                        Scores(p[1], p[2])})

(* The sizes of extractNormalizedGrid's validAztecSizes *)
validAztecSizes ==
    {15, 19, 23, 27, 31, 37, 41, 45, 49, 53, 57, 61, 67, 71, 75, 79, 83, 87,
     91, 95, 101, 105, 109, 113, 117, 121, 125, 131, 135, 139, 143, 147, 151}

(* The loop over the candidate sizes: best is <<bestSize, bestSizeScore>>  *)
RECURSIVE BestCandidate(_, _, _, _, _)
BestCandidate(imageData, outputSize, candidateSizes, n, best) ==
    IF n > Len(candidateSizes) THEN best
    ELSE LET testSize == candidateSizes[n]
             score    == scoreBullseyeAlignment(imageData, outputSize,
                                                testSize)
             isBetterScore == score > best[2]
             isTieWithBetterValidity ==
                 /\ score = best[2]
                 /\ testSize \in validAztecSizes
                 /\ best[1] \notin validAztecSizes
         IN  BestCandidate(imageData, outputSize, candidateSizes, n + 1,
                 IF isBetterScore \/ isTieWithBetterValidity
                 THEN <<testSize, score>> ELSE best)

(* extractBinaryGrid: one value per module, sampled at the module centre   *)
(* with the half-pixel inward margin of the edge modules.  The average     *)
(* over the sample radius against the Otsu threshold is taken to be the    *)
(* darkness of the centre pixel.                                           *)
extractBinaryGrid(imageData, outputSize, gridSize) ==
    LET Sample(k) ==
            IF k = 0
            THEN ((2 * k + 1) * outputSize + gridSize) \div (2 * gridSize)
            ELSE IF k = gridSize - 1
            THEN ((2 * k + 1) * outputSize - gridSize) \div (2 * gridSize)
            ELSE ModuleCentre(k, outputSize, gridSize)
    IN  [row \in 0..(gridSize - 1) |-> [col \in 0..(gridSize - 1) |->
            PixelDark(imageData, outputSize, Sample(col), Sample(row))]]

(* hasSymbolSize that never takes the symbol's size *)
hasSymbolSize_Never(args) == FALSE

(* zxingSymbol && zxingSymbol.width > 0 && zxingSymbol.height > 0; an      *)
(* argument that is not passed is absent from the record of arguments.     *)
hasSymbolSize(args) ==
    /\ "zxingSymbol" \in DOMAIN args
    /\ args.zxingSymbol.width > 0
    /\ args.zxingSymbol.height > 0

(* extractNormalizedGrid(imageData, position, outputSize, zxingSymbol?),   *)
(* called with the record of its arguments.  Of the result, grid and the   *)
(* corner, centroid and size entries of debugInfo are kept.                *)
extractNormalizedGrid(args) ==
    LET normalizedCorners == normalizeCorners(args.position)
        H == computeHomography(
                 <<normalizedCorners.topLeft, normalizedCorners.topRight,
                   normalizedCorners.bottomRight,
                   normalizedCorners.bottomLeft>>,
                 <<[x |-> 0, y |-> 0],
                   [x |-> args.outputSize - 1, y |-> 0],
                   [x |-> args.outputSize - 1, y |-> args.outputSize - 1],
                   [x |-> 0, y |-> args.outputSize - 1]>>)
        corners == <<args.position.topLeft, args.position.topRight,
                     args.position.bottomRight, args.position.bottomLeft>>
        detected == detectGridSize(args.imageData, args.outputSize)
        candidateSizes ==
            SelectSeq(<<detected - 4, detected - 2, detected, detected + 2,
                        detected + 4>>, LAMBDA s : s > 10)
        best == BestCandidate(args.imageData, args.outputSize,
                              candidateSizes, 1, <<detected, -1>>)
        gridSize == IF hasSymbolSize(args) THEN args.zxingSymbol.width
                    ELSE best[1]
    IN  [grid |-> extractBinaryGrid(args.imageData, args.outputSize,
                                    gridSize),
         debugInfo |->
             [originalCorners   |-> args.position,
              normalizedCorners |-> normalizedCorners,
              centroid |->
                  [x |-> Rat(corners[1].x + corners[2].x + corners[3].x
                                 + corners[4].x, 4),
                   y |-> Rat(corners[1].y + corners[2].y + corners[3].y
                                 + corners[4].y, 4)],
              initialGridSize |->
                  IF hasSymbolSize(args) THEN gridSize ELSE detected,
              candidateSizeScores |->
                  IF hasSymbolSize(args) THEN <<>>
                  ELSE [n \in 1..Len(candidateSizes) |->
                           [size  |-> candidateSizes[n],
                            score |-> scoreBullseyeAlignment(
                                          args.imageData, args.outputSize,
                                          candidateSizes[n])]],
              finalGridSize |-> gridSize,
              gridOffset |-> [x |-> 0, y |-> 0]]]

(* Inputs of extractNormalizedGrid: corners on a small lattice (proper     *)
(* and degenerate quadrilaterals in every order) and those of a symbol     *)
(* standing on a corner, pictures showing 13 or                            *)
(* 15 modules, the output size App.tsx passes, and no symbol, a symbol of  *)
(* 15 or of 17 modules, or one without a height.                           *)
MaxCoordinate == 1

Corners == {[x |-> a, y |-> b] : a \in 0..MaxCoordinate, b \in 0..MaxCoordinate}

Pictures ==
    {[shown |-> n, texture |-> t] : n \in {13, 15}, t \in {"light", "checks"}}

Symbols ==
    {[data |-> PatternGrid(d[1], "stripes"), width |-> d[1], height |-> d[2]] :
        d \in {<<15, 15>>, <<17, 17>>, <<19, 0>>}}

(* A symbol photographed at 45 degrees, its corners named from each of the *)
(* four in turn.                                                           *)
RotatedPositions ==
    LET c == <<[x |-> 2, y |-> 0], [x |-> 4, y |-> 2],
               [x |-> 2, y |-> 4], [x |-> 0, y |-> 2]>>
    IN  {[topLeft     |-> c[k + 1],
          topRight    |-> c[((k + 1) % 4) + 1],
          bottomRight |-> c[((k + 2) % 4) + 1],
          bottomLeft  |-> c[((k + 3) % 4) + 1]] : k \in 0..3}

ExtractCalls ==
    LET plain == [op : {"extractNormalizedGrid"},
                  imageData : Pictures,
                  position : [topLeft : Corners, topRight : Corners,
                              bottomRight : Corners, bottomLeft : Corners]
                                 \cup RotatedPositions,
                  outputSize : {512}]
    IN  plain \cup {c @@ [zxingSymbol |-> z] : c \in plain, z \in Symbols}

InitExtract ==
    /\ call \in ExtractCalls
    /\ returned = <<>>
    /\ pc = "call"
    /\ grid = <<>>
    /\ size = 0
    /\ structure = <<>>
    /\ AppMounted
    /\ codewordValues = <<>>
    /\ codewordSize = 0
    /\ numDataCodewords = 0
    /\ bitBuffer = 0
    /\ bitsAvailable = 0
    /\ position = 0
    /\ results = <<>>
    /\ charPosition = 0
    /\ currentMode = "UPPER"
    /\ shiftMode = "null"
    /\ symbolIndex = 0

CallExtractNormalizedGrid ==
    /\ pc = "call"
    /\ call.op = "extractNormalizedGrid"
    /\ returned' = extractNormalizedGrid(call)
    /\ pc' = "returned"
    /\ UNCHANGED <<grid, size, structure, codewordValues, codewordSize,
                   numDataCodewords, bitBuffer, bitsAvailable, position,
                   results, charPosition, currentMode, shiftMode,
                   symbolIndex, call,
                   AppState>>

NextExtract == CallExtractNormalizedGrid

SpecExtract == InitExtract /\ [][NextExtract]_vars

-----------------------------------------------------------------------------
(* App.tsx: handleDrop, processFile and processImageData.  An async        *)
(* function runs to its await in one step and resumes in a later one, so   *)
(* the calls made for several files may be pending at once and resume in   *)
(* any order.                                                              *)

(* Files dropped before the page is left alone *)
MaxRequests == 3

(* The files offered: an image whose symbol is decoded and analysed, an    *)
(* image in which decodeAztec finds no symbol, an image whose pipeline     *)
(* throws after the decode, and a file that is not an image.               *)
FileKinds == {"decodes", "no symbol", "throws", "not an image"}

Files == [name : {"A", "B"}, kind : FileKinds]

(* What a call of processImageData for the file leaves in structure,       *)
(* codewordInfos and decodedText when it runs alone: the analysis of the   *)
(* file's symbol (lines 178-180), or nothing (lines 103-105, 184-186).     *)
Shown(file) ==
    IF file.kind = "decodes"
    THEN [structure     |-> <<[image |-> file.name]>>,
          codewordInfos |-> <<[image |-> file.name]>>,
          decodedText   |-> file.name]
    ELSE [structure |-> <<>>, codewordInfos |-> <<>>, decodedText |-> ""]

(* The variables of the decoder and of the calls made on their own *)
Analysis == <<grid, size, codewordValues, codewordSize, numDataCodewords, bitBuffer, bitsAvailable, position, results, charPosition, currentMode, shiftMode, symbolIndex, pc, call, returned>>

Awaiting(k) == k \in 1..Len(inFlight) /\ inFlight[k].pc = "await"

WithoutFile(files, k) == [i \in 1..(Len(files) - 1) |-> IF i < k THEN files[i] ELSE files[i + 1]]

InitApp ==
    /\ AppMounted
    /\ structure = <<>>
    /\ grid = <<>>
    /\ size = 0
    /\ call = <<>>
    /\ returned = <<>>
    /\ codewordValues = <<>>
    /\ codewordSize = 0
    /\ numDataCodewords = 0
    /\ bitBuffer = 0
    /\ bitsAvailable = 0
    /\ position = 0
    /\ results = <<>>
    /\ charPosition = 0
    /\ currentMode = "UPPER"
    /\ shiftMode = "null"
    /\ symbolIndex = 0
    /\ pc = "app"

(* handleDrop: an image file goes to processFile, which awaits loadImage;  *)
(* any other file is refused.                                              *)
HandleDrop(file) ==
    /\ Len(loading) + Len(inFlight) < MaxRequests
    /\ IF file.kind # "not an image"
       THEN /\ loading' = Append(loading, file)
            /\ UNCHANGED error
       ELSE /\ error' = "Please drop an image file"
            /\ UNCHANGED loading
    /\ UNCHANGED <<structure, codewordInfos, decodedText, isLoading, inFlight>>
    /\ UNCHANGED Analysis

(* processFile resumes with the image data and calls processImageData,     *)
(* which runs up to 'await decodeAztec(imageData)'.  The call records      *)
(* whether an earlier call was still awaiting its decode.                  *)
StartProcessImageData(k) ==
    /\ k \in 1..Len(loading)
    /\ isLoading' = TRUE
    /\ error' = "null"
    /\ inFlight' = Append(inFlight, [file |-> loading[k], pc |-> "await", overlaps |-> \E i \in 1..Len(inFlight) : Awaiting(i)])
    /\ loading' = WithoutFile(loading, k)
    /\ UNCHANGED <<structure, codewordInfos, decodedText>>
    /\ UNCHANGED Analysis

(* processImageData resumes with result.success false: lines 101-108 and   *)
(* the finally block.                                                      *)
DecodeFails(k) ==
    /\ Awaiting(k)
    /\ inFlight[k].file.kind = "no symbol"
    /\ error' = "No Aztec barcode found in image"
    /\ structure' = <<>>
    /\ codewordInfos' = <<>>
    /\ decodedText' = ""
    /\ isLoading' = FALSE
    /\ inFlight' = [inFlight EXCEPT ![k].pc = "done"]
    /\ UNCHANGED loading
    /\ UNCHANGED Analysis

(* processImageData resumes and the pipeline throws: the catch block and   *)
(* the finally block.                                                      *)
PipelineThrows(k) ==
    /\ Awaiting(k)
    /\ inFlight[k].file.kind = "throws"
    /\ error' = "Failed to process image"
    /\ structure' = <<>>
    /\ codewordInfos' = <<>>
    /\ decodedText' = ""
    /\ isLoading' = FALSE
    /\ inFlight' = [inFlight EXCEPT ![k].pc = "done"]
    /\ UNCHANGED loading
    /\ UNCHANGED Analysis

(* processImageData resumes with a decoded symbol: the grid is extracted   *)
(* and analysed, the state is set (lines 178-180) and the finally block    *)
(* runs.                                                                   *)
DecodeSucceeds(k) ==
    /\ Awaiting(k)
    /\ inFlight[k].file.kind = "decodes"
    /\ structure' = Shown(inFlight[k].file).structure
    /\ codewordInfos' = Shown(inFlight[k].file).codewordInfos
    /\ decodedText' = Shown(inFlight[k].file).decodedText
    /\ isLoading' = FALSE
    /\ inFlight' = [inFlight EXCEPT ![k].pc = "done"]
    /\ UNCHANGED <<error, loading>>
    /\ UNCHANGED Analysis

NextApp ==
    \/ \E file \in Files : HandleDrop(file)
    \/ \E k \in 1..MaxRequests : StartProcessImageData(k)
    \/ \E k \in 1..MaxRequests : DecodeFails(k)
    \/ \E k \in 1..MaxRequests : PipelineThrows(k)
    \/ \E k \in 1..MaxRequests : DecodeSucceeds(k)

SpecApp == InitApp /\ [][NextApp]_vars

-----------------------------------------------------------------------------
(* Vocabulary of the properties *)

IsEcc(i) == results[i].kind = "ecc"

(* Number of bits the codeword values hold *)
StreamBits == Len(codewordValues) * codewordSize

(* The latched mode in force when record i was produced: UPPER at the      *)
(* start, afterwards the target of the last latch record before i.         *)
RECURSIVE LatchedBefore(_)
LatchedBefore(i) ==
    IF i <= 1 THEN "UPPER"
    ELSE IF results[i - 1].kind = "latch" THEN results[i - 1].toMode
    ELSE LatchedBefore(i - 1)

(* Record rec is what a lookup of its raw value in the table of `mode',    *)
(* with that mode's bit width, produces.                                   *)
LookedUpIn(rec, mode) ==
    /\ rec.bitSize = MODE_BITS(mode)
    /\ rec.startBit + rec.bitSize <= StreamBits
           => rec.endBit - rec.startBit = MODE_BITS(mode)
              \/ rec.kind \in {"binary-shift", "flg"}
    /\ rec.rawValue \in 0..(Len(MODE_TABLES(mode)) - 1)
    /\ LET e == MODE_TABLES(mode)[rec.rawValue + 1]
       IN  CASE e.kind = "char" ->
                    /\ rec.kind = "character"
                    /\ rec.decodedChars = e.value
                    /\ rec.mode = mode
             [] e.kind = "shift" ->
                    rec.kind = "shift" /\ rec.toMode = e.toMode
             [] e.kind = "latch" ->
                    rec.kind = "latch" /\ rec.toMode = e.toMode
             [] e.kind = "binary-shift" -> rec.kind = "binary-shift"
             [] e.kind = "flg-n" -> rec.kind = "flg"

(* Record i is the result of a mode-table lookup (not a raw byte, not ECC) *)
IsTableSymbol(i) == results[i].kind \notin {"binary-byte", "ecc"}

-----------------------------------------------------------------------------
(* C1: every record that is not an ecc record ends at or before the        *)
(* data/ECC boundary numDataCodewords * codewordSize: no bit at or beyond  *)
(* the boundary is consumed as a symbol, a binary-shift length, a binary   *)
(* byte or an FLG flag.                                                    *)
C1_NoReadPastDataBoundary ==
    \A i \in 1..Len(results) :
        ~IsEcc(i) => results[i].endBit <= dataBitLimit

(* C2: the ranges of the non-ecc records tile the data stream: the first   *)
(* starts at bit 0 and each later one starts where its predecessor ends.   *)
C2_RangesTile ==
    /\ (Len(results) >= 1 /\ ~IsEcc(1)) => results[1].startBit = 0
    /\ \A i \in 1..(Len(results) - 1) :
           (~IsEcc(i) /\ ~IsEcc(i + 1))
               => results[i + 1].startBit = results[i].endBit

(* C3: a shift lasts exactly one symbol and never changes the latched      *)
(* mode: the symbol after a shift record is looked up in the shift's       *)
(* toMode table with that mode's width, and when it is a character the     *)
(* symbol after it is looked up in the mode latched before the shift.      *)
C3_ShiftLastsOneSymbol ==
    \A i \in 1..Len(results) :
        results[i].kind = "shift" =>
            /\ (i + 1 <= Len(results) /\ ~IsEcc(i + 1))
                   => LookedUpIn(results[i + 1], results[i].toMode)
            /\ (i + 2 <= Len(results) /\ results[i + 1].kind = "character"
                  /\ ~IsEcc(i + 2))
                   => LookedUpIn(results[i + 2], LatchedBefore(i))

(* C3 witness: a shift to a mode other than the latched one, a character   *)
(* decoded in the shift mode, and a further symbol decoded after it.       *)
C3_Witness ==
    \E i \in 1..Len(results) :
        /\ results[i].kind = "shift"
        /\ results[i].toMode # LatchedBefore(i)
        /\ i + 2 <= Len(results)
        /\ results[i + 1].kind = "character"
        /\ results[i + 1].mode = results[i].toMode
        /\ results[i + 2].kind = "character"
        /\ results[i + 2].mode = LatchedBefore(i)

(* C4: a latch is permanent: decoding starts in UPPER, and every symbol    *)
(* that is not the single symbol following a shift is looked up in the     *)
(* table, and with the bit width, of the mode of the last latch record     *)
(* before it (UPPER when there is none).  No other record kind changes the *)
(* latched mode: the decoder's latched mode is always the target of the    *)
(* last latch record emitted.                                              *)
C4_LatchIsPermanent ==
    /\ \A i \in 1..Len(results) :
           (IsTableSymbol(i) /\ (i = 1 \/ results[i - 1].kind # "shift"))
               => LookedUpIn(results[i], LatchedBefore(i))
    /\ currentMode = LatchedBefore(Len(results) + 1)

(* C4 witness: a latch away from UPPER, then a binary run or an FLG or a   *)
(* shifted character, and after it a character still decoded in the        *)
(* latched mode.                                                           *)
C4_Witness ==
    \E i \in 1..Len(results) : \E j \in (i + 1)..Len(results) :
        /\ results[i].kind = "latch"
        /\ results[i].toMode # "UPPER"
        /\ j + 1 <= Len(results)
        /\ \/ results[j].kind \in {"binary-byte", "flg"}
           \/ j >= i + 2 /\ results[j - 1].kind = "shift"
                /\ results[j].kind = "character"
        /\ \A k \in (i + 1)..(j + 1) : results[k].kind # "latch"
        /\ results[j + 1].kind = "character"
        /\ results[j + 1].mode = results[i].toMode

(* Bit p of the codeword stream, most significant bit of each codeword     *)
(* first; a bit outside the stream reads as zero.                          *)
BitAt(p) ==
    IF p < 0 \/ p >= StreamBits THEN 0
    ELSE (codewordValues[(p \div codewordSize) + 1]
             \div (2 ^ (codewordSize - 1 - (p % codewordSize)))) % 2

(* The unsigned value of the `width' stream bits from bit `start' on *)
RECURSIVE Field(_, _)
Field(start, width) ==
    IF width = 0 THEN 0
    ELSE 2 * Field(start, width - 1) + BitAt(start + width - 1)

(* Extra ECI digit bits an FLG(n) with flag value f consumes *)
EciBits(f) == IF f >= 1 /\ f <= 6 THEN 4 * f ELSE 0

(* C5: every binary-shift record with byteCount n is immediately followed  *)
(* by exactly n binary-byte records, each covering 8 consecutive bits      *)
(* right after its predecessor, and the next mode-table symbol is read     *)
(* only after those n bytes.                                               *)
C5_BinaryRunComplete ==
    \A i \in 1..Len(results) :
        results[i].kind = "binary-shift" =>
            LET n == results[i].byteCount
            IN  /\ i + n <= Len(results)
                /\ \A k \in 1..n :
                       /\ results[i + k].kind = "binary-byte"
                       /\ results[i + k].startBit = results[i + k - 1].endBit
                       /\ results[i + k].endBit = results[i + k].startBit + 8
                /\ i + n + 1 <= Len(results) =>
                       /\ results[i + n + 1].kind # "binary-byte"
                       /\ ~IsEcc(i + n + 1) =>
                              results[i + n + 1].startBit
                                  = results[i + n].endBit

(* C6: the byteCount of a binary-shift record equals the 5-bit field that  *)
(* follows the B/S symbol when that field is non-zero, and otherwise the   *)
(* following 11-bit field plus 31 (bits missing from the stream count as   *)
(* zeros); hence 1 <= byteCount <= 2078.                                   *)
C6_ByteCountIsLengthField ==
    \A i \in 1..Len(results) :
        results[i].kind = "binary-shift" =>
            LET p   == results[i].startBit + results[i].bitSize
                f5  == Field(p, 5)
                f11 == Field(p + 5, 11)
            IN  /\ results[i].byteCount = (IF f5 # 0 THEN f5 ELSE f11 + 31)
                /\ results[i].byteCount \in 1..2078

(* C7: an FLG(n) emits one flg record whose flagValue f is the 3-bit field *)
(* after the symbol; decoding then consumes exactly 4*f further bits when  *)
(* 1 <= f <= 6 and none when f is 0 or 7, and the next symbol is looked up *)
(* in the latched mode (any pending shift is cleared).                     *)
C7_FlgConsumesEciDigits ==
    \A i \in 1..Len(results) :
        results[i].kind = "flg" =>
            LET f == results[i].flagValue
            IN  /\ f = Field(results[i].startBit + results[i].bitSize, 3)
                /\ results[i].endBit = results[i].startBit + 8
                /\ i = Len(results) =>
                       /\ bitOffset(TheStream) = results[i].endBit + EciBits(f)
                       /\ shiftMode = "null"
                /\ (i < Len(results) /\ ~IsEcc(i + 1)) =>
                       /\ results[i + 1].startBit
                              = results[i].endBit + EciBits(f)
                       /\ LookedUpIn(results[i + 1], LatchedBefore(i + 1))

(* C8: the output ends with exactly max(0, length - numDataCodewords) ecc  *)
(* records, one per codeword index i >= numDataCodewords in increasing i,  *)
(* with rawValue = codewordValues[i] and range [i*size, i*size + size); no *)
(* ecc record precedes a non-ecc record, and no bit of a codeword at index *)
(* >= numDataCodewords lies in the range of a character or binary-byte     *)
(* record.                                                                 *)
C8_EccTail ==
    pc = "done" =>
        LET n == Len(codewordValues)
            k == IF n > numDataCodewords THEN n - numDataCodewords ELSE 0
            m == Len(results)
        IN  /\ m >= k
            /\ \A j \in 1..k :
                   LET r == results[m - k + j]
                       i == numDataCodewords + j - 1
                   IN  /\ r.kind = "ecc"
                       /\ r.rawValue = codewordValues[i + 1]
                       /\ r.startBit = i * codewordSize
                       /\ r.endBit = r.startBit + codewordSize
            /\ \A j \in 1..(m - k) :
                   /\ ~IsEcc(j)
                   /\ results[j].kind \in {"character", "binary-byte"} =>
                          ~\E b \in results[j].startBit
                                        ..(results[j].endBit - 1) :
                               b >= dataBitLimit /\ b < StreamBits

(* C9: the returned list is ordered by startBit: consecutive records of    *)
(* any kind have strictly increasing startBit, and every record has        *)
(* startBit < endBit.                                                      *)
C9_OrderedByStartBit ==
    pc = "done" =>
        /\ \A i \in 1..(Len(results) - 1) :
               results[i].startBit < results[i + 1].startBit
        /\ \A i \in 1..Len(results) :
               results[i].startBit < results[i].endBit

(* The integer the grid values of a module list spell, dark = 1, most      *)
(* significant bit first.                                                  *)
RECURSIVE GridValue(_, _)
GridValue(modules, n) ==
    IF n = 0 THEN 0
    ELSE 2 * GridValue(modules, n - 1)
         + (IF GridAt(grid, modules[n][1], modules[n][2]) THEN 1 ELSE 0)

(* C10: bit provenance is exact.  For the structure analyzeAztecGrid       *)
(* returned and the records decodeCodewords produced from its              *)
(* codewordValues, codewordSize and dataCodewords, every character, shift, *)
(* latch, binary-byte and ecc record has rawValue equal to the integer     *)
(* formed, most significant bit first, from the grid values of the modules *)
(* getModulesForBitRange(startBit, endBit, dataBitPositions), and that     *)
(* call returns exactly endBit - startBit modules.                         *)
C10_BitProvenance ==
    pc \in {"loop", "done"} =>
        \A i \in 1..Len(results) :
            results[i].kind \in {"character", "shift", "latch",
                                 "binary-byte", "ecc"} =>
                LET modules ==
                        getModulesForBitRange(results[i].startBit,
                                              results[i].endBit,
                                              structure.dataBitPositions)
                IN  /\ Len(modules) = results[i].endBit - results[i].startBit
                    /\ results[i].rawValue = GridValue(modules, Len(modules))

-----------------------------------------------------------------------------
(* C11: for every legal pair (layers, compact), extractBitPositions        *)
(* returns exactly getTotalBits(layers, compact) coordinates, no           *)
(* coordinate twice, each with 0 <= x, y < the matrix size of the symbol.  *)
C11_BitPositionsEnumerateTheLayers ==
    (pc = "returned" /\ call.op = "extractBitPositions") =>
        LET l  == call.layers
            c  == call.compact
            sz == IF c THEN 11 + 4 * l
                  ELSE 15 + 4 * l + 2 * ((6 + 2 * l) \div 15)
        IN  /\ Len(returned) = ((IF c THEN 88 ELSE 112) + 16 * l) * l
            /\ Cardinality({returned[n] : n \in 1..Len(returned)})
                   = Len(returned)
            /\ \A n \in 1..Len(returned) :
                   /\ returned[n][1] \in 0..(sz - 1)
                   /\ returned[n][2] \in 0..(sz - 1)

(* A full-range symbol with reference lines off the centre: the positions  *)
(* skip column 2 of a 37 x 37 matrix or its like and reach the last row.   *)
C11_Witness ==
    /\ pc = "returned"
    /\ call.op = "extractBitPositions"
    /\ ~call.compact
    /\ call.layers >= 5
    /\ \E n \in 1..Len(returned) :
           returned[n][2] = MatrixSize(call.layers, FALSE) - 1
    /\ \A n \in 1..Len(returned) :
           returned[n][1] # MatrixSize(call.layers, FALSE) \div 2 - 16

-----------------------------------------------------------------------------
(* Vocabulary of the module classification *)

Analysed == pc = "returned" /\ call.op = "analyzeAztecGrid"

ModuleTypes ==
    {"finder", "orientation", "mode", "data", "ecc", "alignment", "padding"}

(* Coordinates of the modules of the returned structure with a type in T *)
ModulesTyped(T) ==
    {<<x, y>> \in (0..(returned.size - 1)) \X (0..(returned.size - 1)) :
        returned.modules[y][x].type \in T}

ModuleAt(p) == returned.modules[p[2]][p[1]]

(* C12: every module of an analysed grid of legal size has one of the      *)
(* seven types; a data or ecc module carries a codewordIndex below         *)
(* totalCodewords and a bitIndex below codewordSize, and no two modules    *)
(* carry the same pair.                                                    *)
C12_ModulesPartitioned ==
    Analysed =>
        LET side == 0..(returned.size - 1)
            codewordModules == ModulesTyped({"data", "ecc"})
        IN  /\ DOMAIN returned.modules = side
            /\ \A y \in side :
                   /\ DOMAIN returned.modules[y] = side
                   /\ \A x \in side :
                          returned.modules[y][x].type \in ModuleTypes
            /\ \A p \in codewordModules :
                   /\ {"codewordIndex", "bitIndex"} \subseteq DOMAIN ModuleAt(p)
                   /\ ModuleAt(p).codewordIndex
                          \in 0..(returned.totalCodewords - 1)
                   /\ ModuleAt(p).bitIndex \in 0..(returned.codewordSize - 1)
            /\ Cardinality({<<ModuleAt(p).codewordIndex, ModuleAt(p).bitIndex>> :
                                p \in codewordModules})
                   = Cardinality(codewordModules)

(* A full-range symbol with padding bits: all seven types occur *)
C12_Witness ==
    /\ Analysed
    /\ ~returned.isCompact
    /\ returned.paddingBits > 0
    /\ \A t \in ModuleTypes : ModulesTyped({t}) # {}

(* C13: in an analysed grid of legal size the modules typed padding, data  *)
(* or ecc are exactly the positions of the spiral sequence, each position  *)
(* once; position p (from 0) is padding when p < paddingBits and otherwise *)
(* carries codewordIndex (p - paddingBits) div codewordSize and bitIndex   *)
(* (p - paddingBits) mod codewordSize, typed data iff codewordIndex <      *)
(* dataCodewords, and dataBitPositions at codewordIndex * codewordSize +   *)
(* bitIndex is the module's own coordinate.                                *)
C13_SpiralTypedInOrder ==
    Analysed =>
        LET spiral == extractBitPositions(returned.layers, returned.isCompact)
            cs     == returned.codewordSize
            pad    == returned.paddingBits
        IN  /\ ModulesTyped({"padding", "data", "ecc"})
                   = {spiral[n] : n \in 1..Len(spiral)}
            /\ Cardinality({spiral[n] : n \in 1..Len(spiral)}) = Len(spiral)
            /\ \A n \in 1..Len(spiral) :
                   LET m == ModuleAt(spiral[n])
                       p == n - 1
                   IN  IF p < pad THEN m.type = "padding"
                       ELSE /\ m.type \in {"data", "ecc"}
                            /\ {"codewordIndex", "bitIndex"} \subseteq DOMAIN m
                            /\ m.codewordIndex = (p - pad) \div cs
                            /\ m.bitIndex = (p - pad) % cs
                            /\ m.type = "data"
                                   <=> m.codewordIndex < returned.dataCodewords
                            /\ returned.dataBitPositions[
                                   m.codewordIndex * cs + m.bitIndex + 1]
                                   = <<m.x, m.y>>

(* A symbol with padding bits, data and ECC codewords: the first spiral    *)
(* position is padding, the first after the padding opens codeword 0 and   *)
(* the last closes the last ECC codeword.                                  *)
C13_Witness ==
    /\ Analysed
    /\ returned.paddingBits > 0
    /\ returned.dataCodewords < returned.totalCodewords
    /\ LET spiral == extractBitPositions(returned.layers, returned.isCompact)
       IN  /\ ModuleAt(spiral[1]).type = "padding"
           /\ ModuleAt(spiral[returned.paddingBits + 1]).type = "data"
           /\ ModuleAt(spiral[returned.paddingBits + 1]).codewordIndex = 0
           /\ ModuleAt(spiral[Len(spiral)]).type = "ecc"
           /\ ModuleAt(spiral[Len(spiral)]).bitIndex
                  = returned.codewordSize - 1

(* C14: extractCodewordValues returns totalCodewords values; in value i    *)
(* the bit of weight 2^(codewordSize - 1 - b) is set iff the b-th listed   *)
(* module of codeword i, b < codewordSize, is a dark module of the grid;   *)
(* a codeword without a module list and a module outside the grid give     *)
(* zeros, so every value is in 0..2^codewordSize - 1.                      *)
C14_CodewordValuesSpellModules ==
    (pc = "returned" /\ call.op = "extractCodewordValues") =>
        LET cs == call.codewordSize
            Listed(i) == IF i \in DOMAIN call.codewordModules
                         THEN call.codewordModules[i] ELSE <<>>
            Dark(i, b) ==
                /\ b + 1 <= Len(Listed(i))
                /\ Listed(i)[b + 1][2] \in DOMAIN call.grid
                /\ Listed(i)[b + 1][1]
                       \in DOMAIN call.grid[Listed(i)[b + 1][2]]
                /\ call.grid[Listed(i)[b + 1][2]][Listed(i)[b + 1][1]]
        IN  /\ Len(returned) = call.totalCodewords
            /\ \A i \in 0..(call.totalCodewords - 1) :
                   /\ returned[i + 1] \in 0..(2 ^ cs - 1)
                   /\ \A b \in 0..(cs - 1) :
                          ((returned[i + 1] \div 2 ^ (cs - 1 - b)) % 2 = 1)
                              <=> Dark(i, b)

(* A value with a dark first module and a light one after it, next to a    *)
(* codeword that has no module list.                                       *)
C14_Witness ==
    /\ pc = "returned"
    /\ call.op = "extractCodewordValues"
    /\ call.codewordSize = 4
    /\ call.totalCodewords = 2
    /\ DOMAIN call.codewordModules = {0}
    /\ returned = <<10, 0>>

(* C15: every structure returned for a grid of legal size has              *)
(* totalCodewords = totalBits div codewordSize, paddingBits = totalBits    *)
(* mod codewordSize, dataCodewords + eccCodewords = totalCodewords,        *)
(* 1 <= dataCodewords <= totalCodewords and eccCodewords >= 0.             *)
C15_CodewordCounts ==
    Analysed =>
        /\ returned.totalBits
               = getTotalBits(returned.layers, returned.isCompact)
        /\ returned.codewordSize = getCodewordSize(returned.layers)
        /\ returned.totalCodewords
               = returned.totalBits \div returned.codewordSize
        /\ returned.paddingBits = returned.totalBits % returned.codewordSize
        /\ returned.dataCodewords + returned.eccCodewords
               = returned.totalCodewords
        /\ 1 <= returned.dataCodewords
        /\ returned.dataCodewords <= returned.totalCodewords
        /\ returned.eccCodewords >= 0

(* A mode ring announcing more data codewords than the symbol holds: the   *)
(* count is clamped and no ECC codeword is left.                           *)
C15_Witness ==
    /\ Analysed
    /\ returned.modeMessage.dataCodewords > returned.totalCodewords
    /\ returned.dataCodewords = returned.totalCodewords
    /\ returned.eccCodewords = 0
    /\ returned.paddingBits > 0

(* C16: for every legal grid size getModeMessagePositions returns 28       *)
(* positions for a compact symbol and 40 for a full-range symbol, no       *)
(* position twice.                                                         *)
C16_ModeRingLength ==
    (pc = "returned" /\ call.op = "getModeMessagePositions") =>
        /\ Len(returned) = IF call.compact THEN 28 ELSE 40
        /\ Cardinality({returned[n] : n \in 1..Len(returned)})
               = Len(returned)

(* A full-range symbol with reference lines 16 modules off the centre:     *)
(* the ring skips the centre lines only.                                   *)
C16_Witness ==
    /\ pc = "returned"
    /\ call.op = "getModeMessagePositions"
    /\ ~call.compact
    /\ Cardinality(call.alignmentPositions) >= 3
    /\ Len(returned) = 40
    /\ \A n \in 1..Len(returned) :
           /\ returned[n][1] # call.center
           /\ returned[n][2] # call.center

(* C20: the structure's dataCodewords is floor(0.75 * totalCodewords),     *)
(* with modeMessage.valid false, when the mode ring gave another number of *)
(* bits than 28 (compact) or 40 (full-range); otherwise modeMessage.valid  *)
(* is true and dataCodewords is the smaller of modeMessage.dataCodewords   *)
(* and totalCodewords.                                                     *)
C20_FallbackOnlyOnBitCount ==
    Analysed =>
        LET modeMessage == returned.modeMessage
            total       == returned.totalCodewords
            expected    == IF returned.isCompact THEN 28 ELSE 40
        IN  IF Len(modeMessage.rawBits) # expected
            THEN /\ ~modeMessage.valid
                 /\ returned.dataCodewords = (3 * total) \div 4
            ELSE /\ modeMessage.valid
                 /\ returned.dataCodewords
                        = IF modeMessage.dataCodewords < total
                          THEN modeMessage.dataCodewords ELSE total

(* A ring of the expected length whose count is used as it stands, below   *)
(* both totalCodewords and the 75% fallback.                               *)
C20_Witness ==
    /\ Analysed
    /\ returned.modeMessage.valid
    /\ returned.dataCodewords = returned.modeMessage.dataCodewords
    /\ returned.dataCodewords > 1
    /\ returned.dataCodewords < (3 * returned.totalCodewords) \div 4

-----------------------------------------------------------------------------
(* Vocabulary of the grid extraction *)

Extracted == pc = "returned" /\ call.op = "extractNormalizedGrid"

(* The decode was aborted: an error and no grid *)
Aborted == "error" \in DOMAIN returned /\ "grid" \notin DOMAIN returned

(* The grid has n rows of n values *)
SquareOf(g, n) ==
    /\ DOMAIN g = 0..(n - 1)
    /\ \A row \in DOMAIN g : DOMAIN g[row] = 0..(n - 1)

(* The homography system of the call has no solution *)
SingularCorners ==
    LET n == normalizeCorners(call.position)
    IN  HomographySolution(
            <<n.topLeft, n.topRight, n.bottomRight, n.bottomLeft>>,
            <<[x |-> 0, y |-> 0],
              [x |-> call.outputSize - 1, y |-> 0],
              [x |-> call.outputSize - 1, y |-> call.outputSize - 1],
              [x |-> 0, y |-> call.outputSize - 1]>>).null

(* The call carries a symbol of positive width and height *)
WithSymbolSize ==
    /\ "zxingSymbol" \in DOMAIN call
    /\ call.zxingSymbol.width > 0
    /\ call.zxingSymbol.height > 0

(* C17: every grid extractNormalizedGrid returns, with or without a        *)
(* symbol size, is square with a legal Aztec size; otherwise the decode    *)
(* is aborted.                                                             *)
C17_GridSizeLegal ==
    Extracted =>
        \/ Aborted
        \/ /\ "grid" \in DOMAIN returned
           /\ \E n \in LegalSizes(TRUE) \cup LegalSizes(FALSE) :
                  SquareOf(returned.grid, n)

(* C18: called with a symbol whose width and height are positive,          *)
(* extractNormalizedGrid returns width rows of width values, sampled from  *)
(* the image; no size is detected and no candidate is scored.              *)
C18_SymbolSizeUsed ==
    (Extracted /\ WithSymbolSize) =>
        /\ SquareOf(returned.grid, call.zxingSymbol.width)
        /\ returned.grid = extractBinaryGrid(call.imageData, call.outputSize,
                                             call.zxingSymbol.width)
        /\ returned.debugInfo.candidateSizeScores = <<>>
        /\ returned.debugInfo.initialGridSize = call.zxingSymbol.width
        /\ returned.debugInfo.finalGridSize = call.zxingSymbol.width

(* A symbol of another size than detection finds, with other module        *)
(* values than the image shows.                                            *)
C18_Witness ==
    /\ Extracted
    /\ WithSymbolSize
    /\ call.zxingSymbol.width = 17
    /\ detectGridSize(call.imageData, call.outputSize) = 15
    /\ SquareOf(returned.grid, 17)
    /\ returned.grid # call.zxingSymbol.data

(* C19: when solveLinearSystem returns null for the corners, the decode    *)
(* fails with an error and returns no grid.                                *)
C19_SingularHomographyAborts ==
    (Extracted /\ SingularCorners) => Aborted

-----------------------------------------------------------------------------
-----------------------------------------------------------------------------
(* Vocabulary of the hover display (App.tsx, hoveredSymbol and             *)
(* hoveredSymbolModules)                                                   *)

(* The modules of the analysed structure typed data or ecc *)
CodewordModules ==
    {m \in {structure.modules[y][x] :
               x \in 0..(size - 1), y \in 0..(size - 1)} :
        m.type \in {"data", "ecc"}}

(* hoveredSymbol of a module that has a codeword index and a bit index *)
hoveredSymbol(m) ==
    findSymbolAtBit(m.codewordIndex * structure.codewordSize + m.bitIndex,
                    results)

(* The module is among hoveredSymbolModules of the record *)
Highlights(rec, m) ==
    LET modules == getModulesForBitRange(rec.startBit, rec.endBit,
                                         structure.dataBitPositions)
    IN  \E n \in 1..Len(modules) :
            /\ rec.startBit + n - 1 >= 0
            /\ modules[n] = <<m.x, m.y>>

(* C22: once the symbol is analysed and decoded, every module typed data   *)
(* or ecc has a hovered symbol, and the modules highlighted for that       *)
(* symbol include the module.                                              *)
C22_HoverResolves ==
    pc = "done" =>
        \A m \in CodewordModules :
            /\ hoveredSymbol(m) # <<>>
            /\ Highlights(hoveredSymbol(m)[1], m)

-----------------------------------------------------------------------------
(* C23: the corners extractNormalizedGrid reports as normalised are the    *)
(* four input corners sorted by quadrant around their centroid (cx, cy):   *)
(* topLeft left of and above it, topRight not left of and above it,        *)
(* bottomRight not left of and not above it, bottomLeft left of and not    *)
(* above it; they are a permutation of the input corners; and input        *)
(* corners already in that order are reported as they were given.          *)
C23_CornersSortedByQuadrant ==
    Extracted =>
        LET o == returned.debugInfo.originalCorners
            n == returned.debugInfo.normalizedCorners
            given  == <<o.topLeft, o.topRight, o.bottomRight, o.bottomLeft>>
            sorted == <<n.topLeft, n.topRight, n.bottomRight, n.bottomLeft>>
            sumX == o.topLeft.x + o.topRight.x + o.bottomRight.x
                        + o.bottomLeft.x
            sumY == o.topLeft.y + o.topRight.y + o.bottomRight.y
                        + o.bottomLeft.y
            InOrder(q) ==
                /\ 4 * q[1].x < sumX  /\ 4 * q[1].y < sumY
                /\ 4 * q[2].x >= sumX /\ 4 * q[2].y < sumY
                /\ 4 * q[3].x >= sumX /\ 4 * q[3].y >= sumY
                /\ 4 * q[4].x < sumX  /\ 4 * q[4].y >= sumY
        IN  /\ InOrder(sorted)
            /\ \E p \in Permutations(1..4) :
                   \A i \in 1..4 : sorted[i] = given[p[i]]
            /\ InOrder(given) => sorted = given

-----------------------------------------------------------------------------
(* C24: the mode tables are dense.  The table of every mode has an entry   *)
(* for each value of its width (16 for DIGIT, 32 for the others), and      *)
(* every character record decodeCodewords emits carries the characters of  *)
(* the table entry of its rawValue in its mode: the placeholder record of  *)
(* a value beyond the table is never emitted.                              *)
C24_TablesDense ==
    /\ \A mode \in Modes : Len(MODE_TABLES(mode)) = 2 ^ MODE_BITS(mode)
    /\ \A i \in 1..Len(results) :
           results[i].kind = "character" =>
               /\ results[i].rawValue < Len(MODE_TABLES(results[i].mode))
               /\ MODE_TABLES(results[i].mode)[results[i].rawValue + 1]
                      = char(results[i].decodedChars)

(* The last value of a 5-bit table and the last value of DIGIT have been   *)
(* read, and a character has been decoded in DIGIT.                        *)
C24_Witness ==
    /\ pc = "done"
    /\ \E i \in 1..Len(results) :
           /\ results[i].kind \in {"shift", "latch", "binary-shift"}
           /\ results[i].bitSize = 5 /\ results[i].rawValue = 31
    /\ \E i \in 1..Len(results) :
           /\ results[i].kind = "shift"
           /\ results[i].bitSize = 4 /\ results[i].rawValue = 15
    /\ \E i \in 1..Len(results) :
           /\ results[i].kind = "character"
           /\ results[i].mode = "DIGIT"

-----------------------------------------------------------------------------
(* Vocabulary of the reading order.  The data lines of a symbol are its    *)
(* rows (columns) that are not reference lines, counted from 0 at the top  *)
(* (left).                                                                 *)
DataLines(sz, compact) ==
    LET lines == IF compact THEN {} ELSE getAlignmentPositions(sz)
        free  == {v \in 0..(sz - 1) : v \notin lines}
    IN  [n \in 0..(Cardinality(free) - 1) |->
            CHOOSE v \in free : Cardinality({u \in free : u < v}) = n]

(* C25: extractBitPositions reads the layers from the outermost inwards.   *)
(* In a layer it goes down the left side from the top-left corner, right   *)
(* along the bottom from the bottom-left corner, up the right side from    *)
(* the bottom-right corner and left along the top from the top-right       *)
(* corner, each leg stopping 2 modules short of the next corner; at every  *)
(* step it takes the module of the outer line of the side and then its     *)
(* inner neighbour.  The first position is (0, 0).                         *)
C25_ReadingOrder ==
    (pc = "returned" /\ call.op = "extractBitPositions") =>
        LET line  == DataLines(MatrixSize(call.layers, call.compact),
                               call.compact)
            last  == Cardinality(DOMAIN line) - 1
            Side(layer)  == last + 1 - 4 * layer
            Steps(layer) == Side(layer) - 2
            Start(layer) == 8 * (layer * (last - 1) - 2 * layer * (layer - 1))
            near(layer)  == 2 * layer
            far(layer)   == last - 2 * layer
            Expected(layer, leg, step, k) ==
                CASE leg = 0 -> <<line[near(layer) + k],
                                  line[near(layer) + step]>>
                  [] leg = 1 -> <<line[near(layer) + step],
                                  line[far(layer) - k]>>
                  [] leg = 2 -> <<line[far(layer) - k],
                                  line[far(layer) - step]>>
                  [] leg = 3 -> <<line[far(layer) - step],
                                  line[near(layer) + k]>>
        IN  /\ Len(returned) = Start(call.layers)
            /\ returned[1] = <<0, 0>>
            /\ \A layer \in 0..(call.layers - 1), leg \in 0..3, k \in 0..1 :
                   \A step \in 0..(Steps(layer) - 1) :
                       returned[Start(layer) + leg * 2 * Steps(layer)
                                    + 2 * step + k + 1]
                           = Expected(layer, leg, step, k)

(* A full-range symbol of 37 modules, whose column 2 and row 2 are         *)
(* reference lines: the second layer starts at (3, 3), after the last      *)
(* position of the first layer, on the top row.                            *)
C25_Witness ==
    /\ pc = "returned"
    /\ call.op = "extractBitPositions"
    /\ ~call.compact
    /\ call.layers = 5
    /\ returned[256] = <<3, 1>>
    /\ returned[257] = <<3, 3>>
    /\ returned[258] = <<4, 3>>

-----------------------------------------------------------------------------
(* Vocabulary of the compact/full-range decision.  The modules of the      *)
(* centre row beyond the bullseye and the mode ring, to the right of the   *)
(* centre: distance 8 to the edge.                                         *)
BeyondBullseye(sz) == (sz \div 2 + 8)..(sz - 1)

(* Neighbouring modules of that stretch that differ *)
Alternations(g, sz) ==
    {x \in BeyondBullseye(sz) :
        /\ x + 1 \in BeyondBullseye(sz)
        /\ GridAt(g, x, sz \div 2) # GridAt(g, x + 1, sz \div 2)}

(* C26: analyzeAztecGrid classifies size 15 as compact and every size      *)
(* above 27 as full-range.  A grid of size 19, 23 or 27 is full-range when *)
(* its centre row alternates module by module beyond the bullseye, and     *)
(* compact when it does not alternate there at all.                        *)
C26_CompactOrFullRange ==
    Analysed =>
        /\ call.size = 15 => returned.isCompact
        /\ call.size > 27 => ~returned.isCompact
        /\ call.size \in {19, 23, 27} =>
               /\ Cardinality(Alternations(call.grid, call.size))
                      = Cardinality(BeyondBullseye(call.size)) - 1
                      => ~returned.isCompact
               /\ Alternations(call.grid, call.size) = {}
                      => returned.isCompact

-----------------------------------------------------------------------------
(* The ten direct latches of the mode tables *)
DirectLatches ==
    {<<"UPPER", "LOWER">>, <<"UPPER", "MIXED">>, <<"UPPER", "DIGIT">>,
     <<"LOWER", "MIXED">>, <<"LOWER", "DIGIT">>,
     <<"MIXED", "LOWER">>, <<"MIXED", "UPPER">>, <<"MIXED", "PUNCT">>,
     <<"DIGIT", "UPPER">>, <<"PUNCT", "UPPER">>}

(* C27: every latch record decodeCodewords emits goes from its fromMode to *)
(* its toMode by one of the ten direct latches.                            *)
C27_LatchesAreDirect ==
    \A i \in 1..Len(results) :
        results[i].kind = "latch" =>
            <<results[i].fromMode, results[i].toMode>> \in DirectLatches

-----------------------------------------------------------------------------
(* The ring of a module: rings are 2 modules wide and counted from 0 at    *)
(* the edge of the symbol, reference lines left out.                       *)
RingOf(p, sz, compact) ==
    LET lines == IF compact THEN {} ELSE getAlignmentPositions(sz)
        free  == {v \in 0..(sz - 1) : v \notin lines}
        Before(v) == Cardinality({u \in free : u < v})
        After(v)  == Cardinality({u \in free : u > v})
        Least(S)  == CHOOSE v \in S : \A w \in S : v <= w
    IN  Least({Before(p[1]), After(p[1]), Before(p[2]), After(p[2])}) \div 2

(* C28: the layer reported for a module typed data or ecc is the index,    *)
(* from 0 at the outermost, of the 2-module-wide ring the module lies in,  *)
(* which is the layer in which the spiral reads it; it is at least 0 and   *)
(* below the number of layers.                                             *)
C28_LayerIsRing ==
    Analysed =>
        \A p \in ModulesTyped({"data", "ecc"}) :
            /\ ModuleAt(p).layer
                   = RingOf(p, returned.size, returned.isCompact)
            /\ ModuleAt(p).layer \in 0..(returned.layers - 1)

-----------------------------------------------------------------------------
(* The modules of the bullseye: Chebyshev distance at most 4 (compact) or  *)
(* 6 (full-range) from the centre.                                         *)
Bullseye ==
    LET center == returned.size \div 2
        half   == IF returned.isCompact THEN 4 ELSE 6
    IN  ((center - half)..(center + half))
            \X ((center - half)..(center + half))

(* C29: in every analysed symbol all the modules of the bullseye, the      *)
(* centre module among them, are typed finder.                             *)
C29_BullseyeIsFinder ==
    Analysed =>
        \A p \in Bullseye : ModuleAt(p).type = "finder"

(* C30: when a call of processImageData starts while an earlier one still  *)
(* awaits its decode, then once every call has completed, structure,       *)
(* codewordInfos and decodedText are those of the call that started last,  *)
(* whatever the order of completion; and isLoading is TRUE whenever a      *)
(* decode is in flight.                                                    *)
C30_LatestRequestShown ==
    LET latest == inFlight[Len(inFlight)]
    IN  /\ (/\ inFlight # <<>>
            /\ latest.overlaps
            /\ \A k \in 1..Len(inFlight) : inFlight[k].pc = "done")
           => /\ structure = Shown(latest.file).structure
              /\ codewordInfos = Shown(latest.file).codewordInfos
              /\ decodedText = Shown(latest.file).decodedText
        /\ (\E k \in 1..Len(inFlight) : Awaiting(k)) => isLoading

====
